---- MODULE Spec2Model ----
(***************************************************************************)
(* A model of the Sado Music Bot workflow engine (sado_music_bot/):        *)
(* the moderator's review of submissions (admin/handlers.py), the donation *)
(* lifecycle (donations/handlers.py) and the persistence layer (db.py).    *)
(*                                                                         *)
(* Handlers are coroutines.  aiogram's polling dispatcher runs every       *)
(* update as its own task, so two handlers interleave at their awaits.     *)
(* A handler is therefore a sequence of steps, one per suspension point    *)
(* that reads or writes the shared store; the sends and card edits that    *)
(* follow a store access touch no shared state and are folded into the     *)
(* step of that access, with their success or failure chosen freely.       *)
(* Every statement of db.py runs on the one shared connection and is       *)
(* atomic.                                                                 *)
(***************************************************************************)
EXTENDS Integers, Sequences, FiniteSets, TLC

VARIABLES
    cfg,        \* the Config loaded at process start (config.py)
    now,        \* int(time.time())
    artists,    \* table artists:         artist_id -> row, or NoRow
    subs,       \* table submissions:     submission_id -> row, or NoRow
    tracks,     \* table tracks:          track_id -> row, or NoRow
    donations,  \* table donation_events: donation_id -> row, or NoRow
    settings,   \* table user_settings:   user -> anonymous_default, or NULL
    fsm,        \* aiogram FSM storage:   user -> [state, data]
    procs,      \* handler tasks in flight: slot -> frame
    published,  \* audio posts made in channels (bot.send_audio)
    notified,   \* per submission: the notices sent to its submitter
    thanks,     \* per donation: the appreciation posts and artist DMs issued
    toggles,    \* per donation: parity of the toggle statements executed
    out,        \* what the last handler step showed its user: the answer
                \* (cb.answer / m.answer) and the mark put on the card
    keyboards,  \* per user: the inline keyboards of the guided flows that
                \* the bot has sent and not yet edited away
    conn        \* the shared psycopg2 connection: "ready", or "aborted" once a
                \* statement has failed and no rollback was issued

dbVars   == <<artists, subs, tracks, donations, settings>>
sendVars == <<published, notified, thanks>>
vars     == <<cfg, now, artists, subs, tracks, donations, settings, fsm, procs,
              published, notified, thanks, toggles, out, keyboards, conn>>

----------------------------------------------------------------------------
(* Bounds of the model. *)

NumProcs == 2
MaxSubs == 1
MaxPublish == 2
MaxDonations == 2

Slots  == 1..NumProcs
SubIds == 1..MaxSubs
TrackIds == 1..MaxPublish
DonIds == 1..MaxDonations

(* SQL NULL is the empty tuple, a value v is <<v>>; a missing row is NoRow. *)
Null == <<>>
Some(v) == <<v>>
NoRow == [row |-> FALSE]

AdminId == 100
Users == {1, 2, AdminId}

(* What Telegram reports of a user: from_user.full_name and                *)
(* from_user.username (None for a user who has set none).                   *)
full_name(user) ==
    CASE user = 1 -> "Ali" [] user = 2 -> "Dana" [] OTHER -> "Moderator"

username(user) == IF user = 2 THEN Some("dana") ELSE Null

Idle == [pc |-> "idle"]

(* The keyboards a chat holds, by callback prefix: kb_genres("onbgenre"),   *)
(* kb_genres("subgenre"), kb_genres("profilegenre"), kb_profile_actions().  *)
NoKeyboards == [onbgenre |-> 0, subgenre |-> 0, profilegenre |-> 0, profile |-> 0]

(* The notifications of one donation: the sends issued (posts, dms), those *)
(* that arrived (posted, dmed) and the last text of each kind.              *)
NoThanks ==
    [posts |-> 0, dms |-> 0, posted |-> 0, dmed |-> 0, post |-> Null, dm |-> Null]

----------------------------------------------------------------------------
(* config.py *)

(* Setting values are character sequences, as read from the environment. *)
Digits == {"0", "1", "2", "3", "4", "5", "6", "7", "8", "9"}

DigitVal(c) ==
    CASE c = "0" -> 0 [] c = "1" -> 1 [] c = "2" -> 2 [] c = "3" -> 3
      [] c = "4" -> 4 [] c = "5" -> 5 [] c = "6" -> 6 [] c = "7" -> 7
      [] c = "8" -> 8 [] c = "9" -> 9

(* The whitespace of str.strip() and of the patterns \s and \S. *)
Blanks == {" ", "\t", "\n"}

RECURSIVE lstrip(_)
lstrip(s) == IF s # <<>> /\ Head(s) \in Blanks THEN lstrip(Tail(s)) ELSE s

RECURSIVE rstrip(_)
rstrip(s) ==
    IF s # <<>> /\ s[Len(s)] \in Blanks THEN rstrip(SubSeq(s, 1, Len(s) - 1)) ELSE s

(* str.startswith on a sequence of characters *)
startswith(s, prefix) ==
    /\ Len(s) >= Len(prefix)
    /\ SubSeq(s, 1, Len(prefix)) = prefix

strip(s) == rstrip(lstrip(s))

RECURSIVE DigitsValue(_)
DigitsValue(s) ==
    IF s = <<>> THEN 0
    ELSE 10 * DigitsValue(SubSeq(s, 1, Len(s) - 1)) + DigitVal(s[Len(s)])

AllDigits(s) == s # <<>> /\ \A i \in 1..Len(s) : s[i] \in Digits

(* Python's int(str): blanks around, an optional sign, decimal digits. *)
PyInt(str) ==
    LET s == strip(str)
        signed == s # <<>> /\ Head(s) \in {"+", "-"}
        body == IF signed THEN Tail(s) ELSE s
    IN  IF AllDigits(body)
        THEN [ok |-> TRUE,
              val |-> IF signed /\ Head(s) = "-"
                      THEN 0 - DigitsValue(body) ELSE DigitsValue(body)]
        ELSE [ok |-> FALSE, val |-> 0]

(* A chat id is an int, or a string (an @username). *)
ChatInt(n) == [kind |-> "int", val |-> n, name |-> <<>>]
ChatName(s) == [kind |-> "str", val |-> 0, name |-> s]
IsZero(chat) == chat.kind = "int" /\ chat.val = 0

_parse_chat_id(val) ==
    LET v == strip(val)
    IN  IF v = <<>> THEN ChatInt(0)
        ELSE IF PyInt(v).ok THEN ChatInt(PyInt(v).val)
        ELSE ChatName(v)

GENRE_CHANNELS(genre) ==
    CASE genre = "Pop" -> "channel_pop"
      [] genre = "Rock" -> "channel_rock"
      [] genre = "Hip Hop" -> "channel_hiphop"
      [] genre = "Rap" -> "channel_hiphop"
      [] genre = "Indie" -> "channel_discovery"
      [] genre = "Electronic" -> "channel_discovery"
      [] genre = "Other" -> "channel_discovery"
      [] OTHER -> "channel_discovery"

GENRE_DISCUSSIONS(genre) ==
    CASE genre = "Pop" -> "discussion_pop"
      [] genre = "Rock" -> "discussion_rock"
      [] genre = "Hip Hop" -> "discussion_hiphop"
      [] genre = "Rap" -> "discussion_hiphop"
      [] genre = "Indie" -> "discussion_discovery"
      [] genre = "Electronic" -> "discussion_discovery"
      [] genre = "Other" -> "discussion_discovery"
      [] OTHER -> "discussion_discovery"

get_channel_or_pop(c, genre) ==
    LET val == c[GENRE_CHANNELS(genre)]
    IN  IF val # <<>> THEN _parse_chat_id(val) ELSE _parse_chat_id(c.channel_pop)

get_channel_for_genre(c, genre) ==
    LET val == c[GENRE_CHANNELS(genre)]
    IN  IF val # <<>> THEN _parse_chat_id(val) ELSE ChatInt(0)

get_discussion_for_genre(c, genre) ==
    LET val == c[GENRE_DISCUSSIONS(genre)]
    IN  IF val # <<>> THEN _parse_chat_id(val) ELSE ChatInt(0)

(* The configurations a deployment is started with in this model: one with *)
(* the Pop channel and its discussion group and no discovery channel, one   *)
(* with both channels and no discussion group.                              *)
EmptyConfig ==
    [admin_id |-> AdminId, max_donations_per_hour |-> 5,
     channel_pop |-> <<>>, channel_rock |-> <<>>,
     channel_hiphop |-> <<>>, channel_discovery |-> <<>>,
     discussion_pop |-> <<>>, discussion_rock |-> <<>>,
     discussion_hiphop |-> <<>>, discussion_discovery |-> <<>>]

Configs ==
    { [EmptyConfig EXCEPT !.channel_pop = <<"-", "7">>,
                          !.discussion_pop = <<"-", "9">>],
      [EmptyConfig EXCEPT !.channel_pop = <<"@", "p">>,
                          !.channel_discovery = <<"-", "8">>] }

----------------------------------------------------------------------------
(* db.py: the statements the handlers issue, as operators on the tables. *)

get_submission(sid) == IF sid \in SubIds THEN subs[sid] ELSE NoRow

get_artist(aid) == IF aid \in DOMAIN artists THEN artists[aid] ELSE NoRow

(* INSERT INTO submissions(...) VALUES(..., 'PENDING', now): reviewed_at and *)
(* admin_message_id stay NULL.  The audio file reference stands for the      *)
(* copied content (title, caption, file).                                    *)
SubmissionRow(artist_id, submitter, genre, file_id) ==
    [row |-> TRUE, artist_id |-> artist_id, submitter_user_id |-> submitter,
     genre |-> genre, telegram_file_id |-> file_id, status |-> "PENDING",
     reviewed_at |-> Null, admin_message_id |-> Null]

(* UPDATE submissions SET status=%s, reviewed_at=%s WHERE submission_id=%s *)
set_submission_status_only(sid, status) ==
    [subs EXCEPT ![sid] = [@ EXCEPT !.status = status]]

set_submission_status(sid, status) ==
    [subs EXCEPT ![sid] = [@ EXCEPT !.status = status, !.reviewed_at = Some(now)]]

(* INSERT INTO tracks(...) VALUES(..., 'ACTIVE', now) *)
TrackRow(artist_id, genre, file_id, channel_msg_id, discussion_anchor_id) ==
    [row |-> TRUE, artist_id |-> artist_id, genre |-> genre,
     telegram_file_id |-> file_id, channel_message_id |-> channel_msg_id,
     discussion_anchor_message_id |-> discussion_anchor_id, status |-> "ACTIVE"]

(* uuid4 gives a key no row has: the first free one. *)
FreeTrackId ==
    CHOOSE t \in TrackIds :
        tracks[t] = NoRow /\ \A u \in TrackIds : u < t => tracks[u] # NoRow

FreeSubId ==
    CHOOSE s \in SubIds :
        subs[s] = NoRow /\ \A u \in SubIds : u < s => subs[u] # NoRow

----------------------------------------------------------------------------
(* Every update is handled in a task of its own; a new task takes the      *)
(* first free slot.                                                         *)
FreeSlot(p) == procs[p] = Idle /\ \A q \in Slots : q < p => procs[q] # Idle

(* What a step shows: its answer, and the mark of a best-effort card edit   *)
(* (cb.message.edit_caption / edit_text inside try/except).                 *)
Shown(answer, mark, edited) ==
    [answer |-> answer, card |-> IF edited THEN mark ELSE "none"]

Answered(answer) == Shown(answer, "none", FALSE)

(* A best-effort notice to the submitter: bot.send_message inside try/except. *)
NotifiedAfter_never(sid, kind, sent) == notified

NotifiedAfter(sid, kind, sent) ==
    IF sent THEN [notified EXCEPT ![sid][kind] = @ + 1] ELSE notified

----------------------------------------------------------------------------
(* admin/handlers.py *)

Authorized_anyone(actor) == actor \in Users

Authorized(actor) == actor = cfg.admin_id

IsPending_or_reviewed(status) == status \in {"PENDING", "APPROVED", "REJECTED"}

IsPending(status) == status = "PENDING"

(* The caption of a channel post, as on_admin_approve asks for it: title,   *)
(* artist name, payment link and caption of the submission, and the links   *)
(* built from bot_username, track_id, artist_id and profile_url.  The       *)
(* function declared in texts.py takes the first four only; the rendering   *)
(* with all eight is taken as the text it names, which reads and writes     *)
(* nothing.                                                                 *)
track_caption_with_payment(submission) ==
    [title |-> submission.telegram_file_id, artist_id |-> submission.artist_id]

InFlightApprovals == Cardinality({q \in Slots : procs[q].pc = "approve"})

(* on_admin_approve up to its first send: the authorization check, the      *)
(* reads of the submission and its artist, the resolution of the channel.   *)
on_admin_approve(p, actor, sid) ==
    /\ FreeSlot(p)
    /\ UNCHANGED <<cfg, conn, now, keyboards, dbVars, fsm, sendVars, toggles>>
    /\ IF ~Authorized(actor)
       THEN /\ out' = Answered("not authorized")
            /\ UNCHANGED procs
       ELSE LET submission == get_submission(sid) IN
            IF submission = NoRow
            THEN /\ out' = Answered("submission not found")
                 /\ UNCHANGED procs
            ELSE IF ~IsPending(submission.status)
            THEN /\ out' = Answered("already processed")
                 /\ UNCHANGED procs
            ELSE IF get_artist(submission.artist_id) = NoRow
            THEN /\ out' = Answered("artist not found")
                 /\ UNCHANGED procs
            ELSE IF IsZero(get_channel_for_genre(cfg, submission.genre))
            THEN /\ \E edited \in BOOLEAN :
                        out' = Shown("channel not configured", "NO_CHANNEL", edited)
                 /\ UNCHANGED procs
            ELSE /\ Cardinality(published) + InFlightApprovals < MaxPublish
                 /\ procs' = [procs EXCEPT ![p] =
                        [pc |-> "approve", sid |-> sid, submission |-> submission,
                         post_caption |-> track_caption_with_payment(submission),
                         channel_id |-> get_channel_for_genre(cfg, submission.genre),
                         discussion_id |-> get_discussion_for_genre(cfg, submission.genre)]]
                 /\ UNCHANGED out

(* The rest of on_admin_approve, inside its try block.  Of its awaits only  *)
(* the status write is read by another task, so the sends and the insert    *)
(* before it are taken together with it.  The block stops at the first      *)
(* call that raises:                                                        *)
(*   "publish"  1) bot.send_audio to the genre channel                      *)
(*   "insert"   3) db.insert_track                                          *)
(*   "status"   4) db.set_submission_status                                 *)
(*   "none"     nothing raises                                              *)
(* 2) the anchor, 5) the card and 6) the notice are each in a try of their  *)
(* own.                                                                     *)
ApproveStages == {"publish", "insert", "status", "none"}

Published(raised) == raised # "publish"

TrackInserted_first(raised) == raised # "insert"

TrackInserted(raised) == raised \notin {"publish", "insert"}

StatusWritten_after_publish(raised) == raised # "publish"

StatusWritten(raised) == raised = "none"

(* 2) disc_msg_id: 0, or the message id of the anchor when a discussion    *)
(* group is configured and bot.send_message to it went through.             *)
AnchorId_any(anchored, discussion_id, ch_msg_id) == ch_msg_id + 10

AnchorId(anchored, discussion_id, ch_msg_id) ==
    IF anchored /\ ~IsZero(discussion_id) THEN ch_msg_id + 10 ELSE 0

approve_finish(p, raised, anchored, edited, sent) ==
    LET sid == procs[p].sid
        submission == procs[p].submission
        ch_msg_id == Cardinality(published) + 1
        disc_msg_id == AnchorId(anchored, procs[p].discussion_id, ch_msg_id)
    IN  /\ procs[p].pc = "approve"
        /\ published' = IF Published(raised)
                        THEN published \cup
                             {[chat_id |-> procs[p].channel_id,
                               audio |-> submission.telegram_file_id,
                               caption |-> procs[p].post_caption,
                               message_id |-> ch_msg_id]}
                        ELSE published
        /\ tracks' = IF TrackInserted(raised)
                     THEN [tracks EXCEPT ![FreeTrackId] =
                              TrackRow(submission.artist_id, submission.genre,
                                       submission.telegram_file_id,
                                       ch_msg_id, disc_msg_id)]
                     ELSE tracks
        /\ subs' = IF StatusWritten(raised)
                   THEN set_submission_status(sid, "APPROVED") ELSE subs
        /\ notified' = IF StatusWritten(raised)
                       THEN NotifiedAfter(sid, "approved", sent) ELSE notified
        /\ out' = IF StatusWritten(raised)
                  THEN Shown("approved", "APPROVED", edited)
                  ELSE Shown("failed", "FAILED", edited)
        /\ procs' = [procs EXCEPT ![p] = Idle]
        /\ UNCHANGED <<cfg, conn, now, keyboards, artists, donations, settings, fsm, thanks, toggles>>

(* on_admin_reject up to its write: the authorization check and the read. *)
on_admin_reject(p, actor, sid) ==
    /\ FreeSlot(p)
    /\ UNCHANGED <<cfg, conn, now, keyboards, dbVars, fsm, sendVars, toggles>>
    /\ IF ~Authorized(actor)
       THEN /\ out' = Answered("not authorized")
            /\ UNCHANGED procs
       ELSE LET submission == get_submission(sid) IN
            IF submission = NoRow
            THEN /\ out' = Answered("submission not found")
                 /\ UNCHANGED procs
            ELSE IF ~IsPending(submission.status)
            THEN /\ out' = Answered("already processed")
                 /\ UNCHANGED procs
            ELSE /\ procs' = [procs EXCEPT ![p] =
                        [pc |-> "reject", sid |-> sid, submission |-> submission]]
                 /\ UNCHANGED out

(* The rest of on_admin_reject: db.set_submission_status(REJECTED), the    *)
(* card, the notice.  A failed statement raises out of the handler, which   *)
(* then answers nothing.                                                    *)
reject_finish(p, raised, edited, sent) ==
    /\ procs[p].pc = "reject"
    /\ subs' = IF raised THEN subs ELSE set_submission_status(procs[p].sid, "REJECTED")
    /\ notified' = IF raised THEN notified
                   ELSE NotifiedAfter(procs[p].sid, "rejected", sent)
    /\ out' = IF raised THEN Answered("none") ELSE Shown("rejected", "REJECTED", edited)
    /\ procs' = [procs EXCEPT ![p] = Idle]
    /\ UNCHANGED <<cfg, conn, now, keyboards, artists, tracks, donations, settings, fsm,
                   published, thanks, toggles>>

----------------------------------------------------------------------------
(* music/handlers.py, sub_caption: the row a completed submission flow      *)
(* stores, for an onboarded artist.                                         *)
SubGenres == {"Pop", "Indie"}

create_submission(artist_id, genre) ==
    /\ \E s \in SubIds : subs[s] = NoRow
    /\ get_artist(artist_id) # NoRow
    /\ subs' = [subs EXCEPT ![FreeSubId] =
           SubmissionRow(artist_id, artists[artist_id].tg_user_id, genre, FreeSubId)]
    /\ UNCHANGED <<cfg, conn, now, keyboards, artists, tracks, donations, settings, fsm, procs,
                   sendVars, toggles, out>>

(* app.py main: the process is started again with another environment.     *)
(* The tasks in flight and the in-memory FSM storage are gone, the store    *)
(* stays.                                                                   *)
(* The keys the handlers put in the FSM data; a key not set is Null.        *)
NoData ==
    [donation_track_id |-> Null, donation_id |-> Null,
     onb_name |-> Null, onb_paylink |-> Null, onb_default_genre |-> Null,
     artist_id |-> Null, default_genre |-> Null, file_id |-> Null,
     title |-> Null, genre |-> Null, edit_artist_id |-> Null, edit_field |-> Null]
NoSession == [state |-> "none", data |-> NoData]

Restart(c) ==
    /\ c # cfg
    /\ cfg' = c
    /\ conn' = "ready"
    /\ procs' = [q \in Slots |-> Idle]
    /\ fsm' = [u \in Users |-> NoSession]
    /\ UNCHANGED <<now, keyboards, dbVars, sendVars, toggles, out>>

----------------------------------------------------------------------------
(* The review pipeline: a store with one onboarded artist and no submission. *)

ArtistRow(tg_user_id) == [row |-> TRUE, tg_user_id |-> tg_user_id]

InitAdmin ==
    /\ cfg \in Configs
    /\ conn = "ready"
    /\ now = 0
    /\ artists = [a \in {"a1"} |-> ArtistRow(1)]
    /\ subs = [s \in SubIds |-> NoRow]
    /\ tracks = [t \in TrackIds |-> NoRow]
    /\ donations = [d \in DonIds |-> NoRow]
    /\ settings = [u \in Users |-> Null]
    /\ fsm = [u \in Users |-> NoSession]
    /\ procs = [q \in Slots |-> Idle]
    /\ published = {}
    /\ notified = [s \in SubIds |-> [approved |-> 0, rejected |-> 0]]
    /\ thanks = [d \in DonIds |-> NoThanks]
    /\ toggles = [d \in DonIds |-> 0]
    /\ out = Answered("none")
    /\ keyboards = [u \in Users |-> NoKeyboards]

(* Tokens carry any id: one more than the store can hold never resolves. *)
SubTokens == 1..(MaxSubs + 1)

NextAdmin ==
    \/ \E p \in Slots, actor \in {AdminId, 1}, sid \in SubTokens :
          on_admin_approve(p, actor, sid)
    \/ \E p \in Slots, raised \in ApproveStages, anchored, edited, sent \in BOOLEAN :
          approve_finish(p, raised, anchored, edited, sent)
    \/ \E p \in Slots, actor \in {AdminId, 1}, sid \in SubTokens :
          on_admin_reject(p, actor, sid)
    \/ \E p \in Slots, raised, edited, sent \in BOOLEAN :
          reject_finish(p, raised, edited, sent)
    \/ \E g \in SubGenres : create_submission("a1", g)
    \/ \E c \in Configs : Restart(c)

SpecAdmin == InitAdmin /\ [][NextAdmin]_vars

----------------------------------------------------------------------------
(* Claims about the review pipeline, checked under SpecAdmin. *)

Processed(sid) == subs[sid] # NoRow /\ subs[sid].status \in {"APPROVED", "REJECTED"}

(* C1: a moderator's approve or reject of a submission that is already     *)
(* APPROVED or REJECTED changes no row, publishes nothing, notifies nobody, *)
(* starts no task and is answered "already processed".                      *)
C1_ProcessedIsNoOp ==
    [][\A p \in Slots, sid \in SubIds :
          (/\ Processed(sid)
           /\ \/ on_admin_approve(p, AdminId, sid)
              \/ on_admin_reject(p, AdminId, sid))
          => /\ UNCHANGED <<dbVars, sendVars, procs>>
             /\ out' = Answered("already processed")]_vars

(* C1: a second action was answered "already processed". *)
C1_Witness ==
    /\ out.answer = "already processed"
    /\ \E sid \in SubIds : Processed(sid) /\ subs[sid].reviewed_at # Null

C8_UnauthorizedIsNoOp ==
    [][\A p \in Slots, actor \in Users, sid \in SubTokens :
          (/\ actor # cfg.admin_id
           /\ \/ on_admin_approve(p, actor, sid)
              \/ on_admin_reject(p, actor, sid))
          => /\ UNCHANGED <<dbVars, sendVars, procs>>
             /\ out' = Answered("not authorized")]_vars

(* C8: an outsider was turned away while a submission was PENDING. *)
C8_Witness ==
    /\ out.answer = "not authorized"
    /\ \E sid \in SubIds : subs[sid] # NoRow /\ subs[sid].status = "PENDING"

----------------------------------------------------------------------------
(* db.py: donation_events and user_settings. *)

get_track(tid) == IF tid \in TrackIds THEN tracks[tid] ELSE NoRow

get_donation(did) == IF did \in DonIds THEN donations[did] ELSE NoRow

FreeDonId ==
    CHOOSE d \in DonIds :
        donations[d] = NoRow /\ \A e \in DonIds : e < d => donations[e] # NoRow

(* INSERT INTO donation_events(...) VALUES(..., NULL, is_anonymous,        *)
(* 'CREATED', now): note and confirmed_at are NULL.                         *)
DonationRow(track_id, artist_id, donor_user_id, amount, is_anonymous) ==
    [row |-> TRUE, track_id |-> track_id, artist_id |-> artist_id,
     donor_user_id |-> donor_user_id, donor_name |-> full_name(donor_user_id),
     donor_username |-> username(donor_user_id), amount |-> amount, note |-> Null,
     is_anonymous |-> is_anonymous, status |-> "CREATED", confirmed_at |-> Null]

create_donation_anonymous(track_id, artist_id, donor_user_id, amount, is_anonymous) ==
    [donations EXCEPT ![FreeDonId] =
        DonationRow(track_id, artist_id, donor_user_id, amount, 1)]

create_donation(track_id, artist_id, donor_user_id, amount, is_anonymous) ==
    [donations EXCEPT ![FreeDonId] =
        DonationRow(track_id, artist_id, donor_user_id, amount, is_anonymous)]

(* UPDATE donation_events SET note=%s WHERE donation_id=%s *)
set_donation_note(did, note) ==
    IF get_donation(did) = NoRow THEN donations
    ELSE [donations EXCEPT ![did].note = note]

toggle_sets_anonymous(did) == [donations EXCEPT ![did].is_anonymous = 1]

(* UPDATE ... SET is_anonymous = CASE WHEN is_anonymous = 1 THEN 0 ELSE 1  *)
(* END ... RETURNING is_anonymous: one statement.                           *)
toggle_donation_anon(did) ==
    [donations EXCEPT ![did].is_anonymous = IF @ = 1 THEN 0 ELSE 1]

(* UPDATE donation_events SET status=%s [, confirmed_at=now] *)
set_donation_status_stamped(did, status) ==
    IF get_donation(did) = NoRow THEN donations
    ELSE [donations EXCEPT ![did].status = status, ![did].confirmed_at = Some(now)]

set_donation_status(did, status) ==
    IF get_donation(did) = NoRow THEN donations
    ELSE IF status = "CONFIRMED"
    THEN [donations EXCEPT ![did].status = status, ![did].confirmed_at = Some(now)]
    ELSE [donations EXCEPT ![did].status = status]

window_seconds == 3600

(* SELECT COUNT ... WHERE donor_user_id=%s AND track_id=%s AND             *)
(* status='CONFIRMED' AND confirmed_at IS NOT NULL AND confirmed_at>=cutoff *)
count_recent_confirmed(donor_user_id, track_id, window) ==
    LET cutoff == now - window
    IN  Cardinality({d \in DonIds :
            /\ donations[d] # NoRow
            /\ donations[d].donor_user_id = donor_user_id
            /\ donations[d].track_id = track_id
            /\ donations[d].status = "CONFIRMED"
            /\ donations[d].confirmed_at # Null
            /\ donations[d].confirmed_at[1] >= cutoff})

(* INSERT INTO user_settings ... ON CONFLICT DO UPDATE SET anonymous_default *)
(* A row of user_settings is <<[lang, anonymous_default]>>; no row is NULL.  *)
(* The INSERT gives a new row the language 'uz'.                            *)
set_anon_default_fresh(user_id, val) ==
    [settings EXCEPT ![user_id] = Some([lang |-> "uz", anonymous_default |-> val])]

set_anon_default(user_id, val) ==
    [settings EXCEPT ![user_id] =
        IF @ = Null THEN Some([lang |-> "uz", anonymous_default |-> val])
        ELSE Some([@[1] EXCEPT !.anonymous_default = val])]

(* INSERT INTO user_settings ... VALUES(%s, %s, 0)                          *)
(* ON CONFLICT(user_id) DO UPDATE SET lang=excluded.lang                    *)
set_lang(user_id, lang) ==
    [settings EXCEPT ![user_id] =
        IF @ = Null THEN Some([lang |-> lang, anonymous_default |-> 0])
        ELSE Some([@[1] EXCEPT !.lang = lang])]

----------------------------------------------------------------------------
(* donations/handlers.py: choosing an amount creates the donation.  Tracks  *)
(* and artists are never updated or deleted, so the reads of them commute   *)
(* with every other step and a creating handler is one step.                *)

Donors == {2}

Custom == <<"c", "u", "s", "t", "o", "m">>

MinAmount == 1000
MaxAmount == 1000000

IsActive_any(status) == status \in {"ACTIVE", "REMOVED"}

IsActive(status) == status = "ACTIVE"

HasFreeDonation == \E d \in DonIds : donations[d] = NoRow

(* state.clear() *)
Cleared(user) == [fsm EXCEPT ![user] = NoSession]

(* _create_donation_and_ask_note; db.get_track is its first statement, and  *)
(* raises on a connection left in an aborted transaction.                  *)
_create_donation_and_ask_note(user, track_id, amount) ==
    LET track == get_track(track_id) IN
    IF conn = "aborted"
    THEN /\ out' = Answered("raised")
         /\ UNCHANGED donations
    ELSE IF track = NoRow
    THEN /\ out' = Answered("track not found")
         /\ UNCHANGED donations
    ELSE IF ~IsActive(track.status)
    THEN /\ out' = Answered("track not active")
         /\ UNCHANGED donations
    ELSE IF get_artist(track.artist_id) = NoRow
    THEN /\ out' = Answered("artist not found")
         /\ UNCHANGED donations
    ELSE /\ HasFreeDonation
         /\ donations' = create_donation(track_id, track.artist_id, user, amount, 0)
         /\ out' = Answered("ask note")

(* on_donation_amount_selected: donamtsel:<track_id>:<amount|custom> *)
on_donation_amount_selected(user, track_id, amount_str) ==
    /\ UNCHANGED <<cfg, conn, now, keyboards, artists, subs, tracks, settings, procs, sendVars, toggles>>
    /\ IF amount_str = Custom
       THEN /\ fsm' = [fsm EXCEPT ![user] =
                   [state |-> "waiting_custom_amount",
                    data |-> [@.data EXCEPT !.donation_track_id = Some(track_id)]]]
            /\ out' = Answered("enter amount")
            /\ UNCHANGED donations
       ELSE IF ~PyInt(amount_str).ok
       THEN /\ out' = Answered("invalid amount")
            /\ UNCHANGED <<donations, fsm>>
       ELSE /\ _create_donation_and_ask_note(user, track_id, PyInt(amount_str).val)
            /\ UNCHANGED fsm

(* m.text.strip().replace(" ", "").replace(",", "") *)
IsDigitGroupChar(c) == c \in {" ", ","}
KeepChar(c) == ~IsDigitGroupChar(c)
Ungrouped_stripped(text) == strip(text)

Ungrouped(text) == SelectSeq(strip(text), KeepChar)

(* m.text.startswith("/") *)
IsCommand(text) == text # <<>> /\ Head(text) = "/"

(* on_custom_amount: a text message while waiting_custom_amount; a text    *)
(* that starts with "/" is left alone.                                     *)
on_custom_amount(user, text) ==
    LET parsed == PyInt(Ungrouped(text))
        amount == parsed.val
        track_ref == fsm[user].data.donation_track_id
        track == get_track(track_ref[1])
    IN  /\ fsm[user].state = "waiting_custom_amount"
        /\ UNCHANGED <<cfg, conn, now, keyboards, artists, subs, tracks, settings, procs, sendVars, toggles>>
        /\ IF IsCommand(text)
           THEN UNCHANGED <<donations, fsm, out>>
           ELSE IF ~parsed.ok
           THEN /\ out' = Answered("invalid number")
                /\ UNCHANGED <<donations, fsm>>
           ELSE IF amount < MinAmount
           THEN /\ out' = Answered("below minimum")
                /\ UNCHANGED <<donations, fsm>>
           ELSE IF amount > MaxAmount
           THEN /\ out' = Answered("above maximum")
                /\ UNCHANGED <<donations, fsm>>
           ELSE IF track_ref = Null
           THEN /\ out' = Answered("session expired")
                /\ fsm' = Cleared(user)
                /\ UNCHANGED donations
           ELSE IF conn = "aborted"
           THEN /\ out' = Answered("raised")
                /\ UNCHANGED <<donations, fsm>>
           ELSE IF track = NoRow
           THEN /\ out' = Answered("track not found")
                /\ fsm' = Cleared(user)
                /\ UNCHANGED donations
           ELSE IF ~IsActive(track.status)
           THEN /\ out' = Answered("track not active")
                /\ fsm' = Cleared(user)
                /\ UNCHANGED donations
           ELSE IF get_artist(track.artist_id) = NoRow
           THEN /\ out' = Answered("artist not found")
                /\ fsm' = Cleared(user)
                /\ UNCHANGED donations
           ELSE /\ HasFreeDonation
                /\ donations' = create_donation(track_ref[1], track.artist_id,
                                                user, amount, 0)
                /\ fsm' = Cleared(user)
                /\ out' = Answered("ask note")

----------------------------------------------------------------------------
(* donations/handlers.py: anonymity and note. *)

IsCreated(status) == status = "CREATED"

(* _show_final_confirmation: reads the donation, its track and its artist   *)
(* and shows the card.                                                      *)
_show_final_confirmation(did) ==
    LET donation == get_donation(did) IN
    IF donation = NoRow THEN Answered("not found")
    ELSE IF get_track(donation.track_id) = NoRow
            \/ get_artist(donation.artist_id) = NoRow
    THEN Answered("missing data")
    ELSE Answered("card")

(* on_donate_public (wanted = 0) and on_donate_anonymous (wanted = 1) up to *)
(* the toggle: the read of the donation and the comparison of its flag.     *)
NeedsToggle_always(flag, wanted) == TRUE

NeedsToggle(flag, wanted) == flag # wanted

choose_anonymity(p, did, wanted) ==
    LET donation == get_donation(did) IN
    /\ FreeSlot(p)
    /\ UNCHANGED <<cfg, conn, now, keyboards, dbVars, fsm, sendVars, toggles>>
    /\ IF donation = NoRow
       THEN /\ out' = Answered("not found")
            /\ UNCHANGED procs
       ELSE IF NeedsToggle(donation.is_anonymous, wanted)
       THEN /\ procs' = [procs EXCEPT ![p] =
                   [pc |-> "set_anon", did |-> did, wanted |-> wanted]]
            /\ UNCHANGED out
       ELSE /\ out' = _show_final_confirmation(did)
            /\ UNCHANGED procs

on_donate_public(p, did) == choose_anonymity(p, did, 0)

on_donate_anonymous(p, did) == choose_anonymity(p, did, 1)

(* The rest of on_donate_public / on_donate_anonymous: the toggle and the   *)
(* card.                                                                    *)
set_anon_finish(p) ==
    LET did == procs[p].did IN
    /\ procs[p].pc = "set_anon"
    /\ donations' = toggle_donation_anon(did)
    /\ toggles' = [toggles EXCEPT ![did] = 1 - @]
    /\ out' = _show_final_confirmation(did)
    /\ procs' = [procs EXCEPT ![p] = Idle]
    /\ UNCHANGED <<cfg, conn, now, keyboards, artists, subs, tracks, settings, fsm, sendVars>>

(* on_toggle_anon up to the toggle: the read and the status check. *)
on_toggle_anon(p, user, did) ==
    LET donation == get_donation(did) IN
    /\ FreeSlot(p)
    /\ UNCHANGED <<cfg, conn, now, keyboards, dbVars, fsm, sendVars, toggles>>
    /\ IF donation = NoRow
       THEN /\ out' = Answered("not found")
            /\ UNCHANGED procs
       ELSE IF ~IsCreated(donation.status)
       THEN /\ out' = Answered("not editable")
            /\ UNCHANGED procs
       ELSE /\ procs' = [procs EXCEPT ![p] =
                   [pc |-> "toggle", did |-> did, user |-> user]]
            /\ UNCHANGED out

(* new_anon = await db.toggle_donation_anon(donation_id) *)
toggle_anon_toggle(p) ==
    LET did == procs[p].did IN
    /\ procs[p].pc = "toggle"
    /\ donations' = toggle_donation_anon(did)
    /\ toggles' = [toggles EXCEPT ![did] = 1 - @]
    /\ procs' = [procs EXCEPT ![p] =
           [pc |-> "anon_default", did |-> did, user |-> procs[p].user,
            new_anon |-> donations'[did].is_anonymous]]
    /\ UNCHANGED <<cfg, conn, now, keyboards, artists, subs, tracks, settings, fsm, sendVars, out>>

(* await db.set_anon_default(cb.from_user.id, new_anon), then the reads of *)
(* the track and the artist, the card (best effort) and the answer.        *)
toggle_anon_finish(p) ==
    /\ procs[p].pc = "anon_default"
    /\ settings' = set_anon_default(procs[p].user, procs[p].new_anon)
    /\ out' = IF _show_final_confirmation(procs[p].did) = Answered("card")
              THEN Answered("updated") ELSE Answered("missing data")
    /\ procs' = [procs EXCEPT ![p] = Idle]
    /\ UNCHANGED <<cfg, conn, now, keyboards, artists, subs, tracks, donations, fsm, sendVars, toggles>>

(* on_add_note: don_note:<donation_id> *)
on_add_note(user, did) ==
    LET donation == get_donation(did) IN
    /\ UNCHANGED <<cfg, conn, now, keyboards, dbVars, procs, sendVars, toggles>>
    /\ IF donation = NoRow
       THEN /\ out' = Answered("not found")
            /\ UNCHANGED fsm
       ELSE IF ~IsCreated(donation.status)
       THEN /\ out' = Answered("not editable")
            /\ UNCHANGED fsm
       ELSE /\ fsm' = [fsm EXCEPT ![user] =
                   [state |-> "waiting_note",
                    data |-> [@.data EXCEPT !.donation_id = Some(did)]]]
            /\ out' = Answered("send note")

(* _clean_note.  A text is a sequence of characters. *)
NoteMax == 120

Schemes == { <<"h", "t", "t", "p", ":", "/", "/">>,
             <<"h", "t", "t", "p", "s", ":", "/", "/">> }

(* The pattern https?://\S+ matches at the head of s. *)
UrlAt(s) ==
    \E scheme \in Schemes :
       /\ startswith(s, scheme)
       /\ Len(s) > Len(scheme)
       /\ s[Len(scheme) + 1] \notin Blanks

(* The characters of a text that a pattern leaves, in their order: marked *)
(* is the text with <<>> in the place of each character the match takes.  *)
IsLeft(mark) == mark # <<>>

Unmarked(marked) ==
    LET left == SelectSeq(marked, IsLeft)
    IN  [i \in 1..Len(left) |-> left[i][1]]

(* The longest window the pattern needs to match at a position. *)
SchemeWindow == 9

(* A match of https?://\S+ begins at position j of s. *)
UrlFrom(s, j) ==
    /\ s[j] = "h"
    /\ UrlAt(SubSeq(s, j, IF j + SchemeWindow - 1 < Len(s)
                          THEN j + SchemeWindow - 1 ELSE Len(s)))

(* Position i of s lies in a match of https?://\S+: a match begins at or  *)
(* before i and no blank lies between its beginning and i.                *)
InUrl(s, i) ==
    \E j \in 1..i : UrlFrom(s, j) /\ \A k \in j..i : s[k] \notin Blanks

(* re.sub(r"https?://\S+", "", raw) *)
RemoveUrls(s) ==
    Unmarked([i \in 1..Len(s) |-> IF InUrl(s, i) THEN <<>> ELSE <<s[i]>>])

(* re.sub(r"\s+", " ", raw): the first blank of a run becomes a space, the *)
(* others go.                                                              *)
squeeze(s) ==
    Unmarked([i \in 1..Len(s) |->
                 IF s[i] \notin Blanks THEN <<s[i]>>
                 ELSE IF i > 1 /\ s[i - 1] \in Blanks THEN <<>>
                 ELSE <<" ">>])

_clean_note(text) ==
    LET raw == strip(squeeze(RemoveUrls(strip(text))))
    IN  IF raw = <<>> THEN Null
        ELSE Some(SubSeq(raw, 1, IF Len(raw) < NoteMax THEN Len(raw) ELSE NoteMax))

(* on_note_text: a text message while waiting_note.  The note is written   *)
(* with no look at the donation; the reads that follow only redraw the card. *)
on_note_text(user, text) ==
    LET donation_ref == fsm[user].data.donation_id IN
    /\ fsm[user].state = "waiting_note"
    /\ UNCHANGED <<cfg, conn, now, keyboards, artists, subs, tracks, settings, procs, sendVars, toggles>>
    /\ fsm' = Cleared(user)
    /\ IF donation_ref = Null
       THEN /\ out' = Answered("session expired")
            /\ UNCHANGED donations
       ELSE /\ donations' = set_donation_note(donation_ref[1], _clean_note(text))
            /\ out' = IF get_donation(donation_ref[1]) = NoRow
                      THEN Answered("donation not found")
                      ELSE Answered("note saved")

----------------------------------------------------------------------------
(* donations/handlers.py: cancel and confirm. *)

(* on_cancel_donation up to its write: the read and the status check. *)
on_cancel_donation(p, did) ==
    LET donation == get_donation(did) IN
    /\ FreeSlot(p)
    /\ UNCHANGED <<cfg, conn, now, keyboards, dbVars, fsm, sendVars, toggles>>
    /\ IF donation = NoRow
       THEN /\ out' = Answered("not found")
            /\ UNCHANGED procs
       ELSE IF ~IsCreated(donation.status)
       THEN /\ out' = Answered("already processed")
            /\ UNCHANGED procs
       ELSE /\ procs' = [procs EXCEPT ![p] = [pc |-> "cancel", did |-> did]]
            /\ UNCHANGED out

(* db.set_donation_status(CANCELED), the card (best effort), the answer. *)
cancel_finish(p) ==
    /\ procs[p].pc = "cancel"
    /\ donations' = set_donation_status(procs[p].did, "CANCELED")
    /\ out' = Answered("canceled")
    /\ procs' = [procs EXCEPT ![p] = Idle]
    /\ UNCHANGED <<cfg, conn, now, keyboards, artists, subs, tracks, settings, fsm, sendVars, toggles>>

(* on_confirm_donation up to its write: the read and the status check. *)
on_confirm_donation(p, did) ==
    LET donation == get_donation(did) IN
    /\ FreeSlot(p)
    /\ UNCHANGED <<cfg, conn, now, keyboards, dbVars, fsm, sendVars, toggles>>
    /\ IF donation = NoRow
       THEN /\ out' = Answered("not found")
            /\ UNCHANGED procs
       ELSE IF ~IsCreated(donation.status)
       THEN /\ out' = Answered("already processed")
            /\ UNCHANGED procs
       ELSE /\ procs' = [procs EXCEPT ![p] =
                   [pc |-> "confirm", did |-> did, donation |-> donation]]
            /\ UNCHANGED out

(* texts.py: what a notification text names.  A text is the record of the  *)
(* values formatted into it: who it is from, the handle after the name     *)
(* (creator_dm only), the amount and the note.                              *)
appreciation_public(donor_public, amount, note) ==
    [who |-> donor_public, handle |-> Null, amount |-> amount, note |-> note]

creator_dm(is_anon, donor_name, donor_username, amount, note) ==
    IF is_anon
    THEN [who |-> "anonymous", handle |-> Null, amount |-> amount, note |-> note]
    ELSE [who |-> IF donor_name # "" THEN donor_name ELSE "Unknown",
          handle |-> donor_username, amount |-> amount, note |-> note]

(* 2) DM the artist: a try of its own after the try of the post, so it is   *)
(* reached whatever became of the post.                                     *)
DmAttempted_same_try(anchored, posted) == ~anchored \/ posted

DmAttempted(anchored, posted) == TRUE

(* db.set_donation_status(CONFIRMED), then the reads of the track and the   *)
(* artist, the appreciation post under the track's anchor, the DM to the    *)
(* artist and the card, each send in a try of its own: posted and dmed say  *)
(* whether the send arrived.  The texts are built from the row the handler  *)
(* read before its status check.                                            *)
confirm_finish(p, posted, dmed) ==
    LET did == procs[p].did
        donation == procs[p].donation
        track == get_track(donation.track_id)
        artist == get_artist(donation.artist_id)
        anchored == /\ ~IsZero(get_discussion_for_genre(cfg, track.genre))
                    /\ track.discussion_anchor_message_id # 0
        donor_public == IF donation.is_anonymous = 1 THEN "Someone"
                        ELSE donation.donor_name
        appreciation == appreciation_public(donor_public, donation.amount,
                                            donation.note)
        msg_to_artist == creator_dm(donation.is_anonymous # 0, donation.donor_name,
                                    donation.donor_username, donation.amount,
                                    donation.note)
    IN  /\ procs[p].pc = "confirm"
        /\ donations' = set_donation_status(did, "CONFIRMED")
        /\ IF track = NoRow \/ artist = NoRow
           THEN /\ out' = Answered("missing data")
                /\ UNCHANGED thanks
           ELSE /\ thanks' = [thanks EXCEPT ![did] =
                      [posts  |-> IF anchored THEN @.posts + 1 ELSE @.posts,
                       posted |-> IF anchored /\ posted THEN @.posted + 1 ELSE @.posted,
                       post   |-> IF anchored THEN Some(appreciation) ELSE @.post,
                       dms    |-> IF DmAttempted(anchored, posted)
                                  THEN @.dms + 1 ELSE @.dms,
                       dmed   |-> IF DmAttempted(anchored, posted) /\ dmed
                                  THEN @.dmed + 1 ELSE @.dmed,
                       dm     |-> IF DmAttempted(anchored, posted)
                                  THEN Some(msg_to_artist) ELSE @.dm]]
                /\ out' = Answered("confirmed")
        /\ procs' = [procs EXCEPT ![p] = Idle]
        /\ UNCHANGED <<cfg, conn, now, keyboards, artists, subs, tracks, settings, fsm,
                       published, notified, toggles>>

----------------------------------------------------------------------------
(* Stores for the donation handlers.  Track 1 is ACTIVE with an anchor in   *)
(* the Pop discussion group; the other tracks are ACTIVE with no anchor.    *)

PopConfig ==
    [EmptyConfig EXCEPT !.max_donations_per_hour = 1,
                        !.channel_pop = <<"-", "7">>,
                        !.discussion_pop = <<"-", "9">>,
                        !.channel_discovery = <<"-", "8">>]

PublishedTrack(t) ==
    IF t = 1 THEN TrackRow("a1", "Pop", t, t, t + 10)
    ELSE TrackRow("a1", "Indie", t, t, 0)

(* Tokens carry an id of the store's key space, with a row or without. *)
TrackTokens == TrackIds
DonTokens == DonIds

(* The edits of a donation: a store with one donation, just created by     *)
(* user 2 for track 1.                                                      *)
InitDon ==
    /\ cfg = PopConfig
    /\ conn = "ready"
    /\ now = 0
    /\ artists = [a \in {"a1"} |-> ArtistRow(1)]
    /\ subs = [s \in SubIds |-> NoRow]
    /\ tracks = [t \in TrackIds |-> PublishedTrack(t)]
    /\ donations = [d \in DonIds |->
                        IF d = 1 THEN DonationRow(1, "a1", 2, 5000, 0) ELSE NoRow]
    /\ settings = [u \in Users |-> Null]
    /\ fsm = [u \in Users |-> NoSession]
    /\ procs = [q \in Slots |-> Idle]
    /\ published = {}
    /\ notified = [s \in SubIds |-> [approved |-> 0, rejected |-> 0]]
    /\ thanks = [d \in DonIds |-> NoThanks]
    /\ toggles = [d \in DonIds |-> 0]
    /\ out = Answered("none")
    /\ keyboards = [u \in Users |-> NoKeyboards]

NoteTexts == { <<"h", "i">>, <<" ", "h", "t", "t", "p", ":", "/", "/", "x", " ">> }

NextDon ==
    \/ \E p \in Slots, d \in DonTokens : on_donate_public(p, d)
    \/ \E p \in Slots, d \in DonTokens : on_donate_anonymous(p, d)
    \/ \E p \in Slots : set_anon_finish(p)
    \/ \E p \in Slots, u \in Donors, d \in DonTokens : on_toggle_anon(p, u, d)
    \/ \E p \in Slots : toggle_anon_toggle(p)
    \/ \E p \in Slots : toggle_anon_finish(p)
    \/ \E u \in Donors, d \in DonTokens : on_add_note(u, d)
    \/ \E u \in Donors, text \in NoteTexts : on_note_text(u, text)
    \/ \E p \in Slots, d \in DonTokens : on_cancel_donation(p, d)
    \/ \E p \in Slots : cancel_finish(p)
    \/ \E p \in Slots, d \in DonTokens : on_confirm_donation(p, d)
    \/ \E p \in Slots, posted, dmed \in BOOLEAN : confirm_finish(p, posted, dmed)

SpecDon == InitDon /\ [][NextDon]_vars

(* The creation of donations and their confirmation, which is what the    *)
(* ceiling counts: a store where user 2 has one donation for track 1,       *)
(* confirmed.  The last track is ACTIVE, taken down, of an artist with no  *)
(* row, or missing.                                                         *)
ConfirmedDonation ==
    [DonationRow(1, "a1", 2, 5000, 0) EXCEPT
        !.status = "CONFIRMED", !.confirmed_at = Some(0)]

ConfirmedThanks ==
    [posts |-> 1, dms |-> 1, posted |-> 1, dmed |-> 1,
     post |-> Some(appreciation_public("Dana", 5000, Null)),
     dm |-> Some(creator_dm(FALSE, "Dana", Some("dana"), 5000, Null))]

LastTracks ==
    { PublishedTrack(MaxPublish),
      [PublishedTrack(MaxPublish) EXCEPT !.status = "REMOVED"],
      [PublishedTrack(MaxPublish) EXCEPT !.artist_id = "a2"],
      NoRow }

InitCreate ==
    /\ cfg = PopConfig
    /\ conn = "ready"
    /\ now = 0
    /\ artists = [a \in {"a1"} |-> ArtistRow(1)]
    /\ subs = [s \in SubIds |-> NoRow]
    /\ \E last \in LastTracks :
          tracks = [t \in TrackIds |->
                       IF t = MaxPublish THEN last ELSE PublishedTrack(t)]
    /\ donations = [d \in DonIds |->
                        IF d = 1 THEN ConfirmedDonation ELSE NoRow]
    /\ settings = [u \in Users |-> Null]
    /\ fsm = [u \in Users |-> NoSession]
    /\ procs = [q \in Slots |-> Idle]
    /\ published = {}
    /\ notified = [s \in SubIds |-> [approved |-> 0, rejected |-> 0]]
    /\ thanks = [d \in DonIds |-> IF d = 1 THEN ConfirmedThanks ELSE NoThanks]
    /\ toggles = [d \in DonIds |-> 0]
    /\ out = Answered("none")
    /\ keyboards = [u \in Users |-> NoKeyboards]

(* The amount of a donamtsel token: a button of kb_donation_amounts, or    *)
(* any other text a client puts in the callback data.                      *)
AmountButtons == { <<"5", "0", "0", "0">>, Custom, <<"x">>, <<"7">>, <<"-", "5">> }
(* Texts typed as a custom amount, each with the number it writes (Null   *)
(* when it writes none).                                                  *)
CustomAmounts ==
    { [text |-> <<"1", "5", "0", "0", "0">>, number |-> Some(15000)],
      [text |-> <<"1", "5", ",", "0", "0", "0">>, number |-> Some(15000)],
      [text |-> <<"1", "5", " ", "0", "0", "0">>, number |-> Some(15000)],
      [text |-> <<"5", ",", "0", "0", "0">>, number |-> Some(5000)],
      [text |-> <<" ", "1", "0", "0", "0">>, number |-> Some(1000)],
      [text |-> <<"9", "9", "9">>, number |-> Some(999)],
      [text |-> <<"-", "5", "0", "0", "0">>, number |-> Some(0 - 5000)],
      [text |-> <<"1", ",", "0", "0", "0", ",", "0", "0", "0">>,
       number |-> Some(1000000)],
      [text |-> <<"1", "0", "0", "0", "0", "0", "1">>, number |-> Some(1000001)],
      [text |-> <<"x">>, number |-> Null],
      [text |-> <<"1", "5", ".", "0">>, number |-> Null],
      [text |-> <<",">>, number |-> Null] }

CommandTexts == { <<"/", "x">> }

AmountTexts == { c.text : c \in CustomAmounts } \cup CommandTexts

NextCreate ==
    \/ \E u \in Donors, t \in TrackTokens, a \in AmountButtons :
          on_donation_amount_selected(u, t, a)
    \/ \E u \in Donors, text \in AmountTexts : on_custom_amount(u, text)
    \/ \E p \in Slots, d \in DonTokens : on_confirm_donation(p, d)
    \/ \E p \in Slots, posted, dmed \in BOOLEAN : confirm_finish(p, posted, dmed)

SpecCreate == InitCreate /\ [][NextCreate]_vars

----------------------------------------------------------------------------
(* Claims about the edits of a donation, checked under SpecDon. *)

Settled(did) ==
    donations[did] # NoRow /\ donations[did].status \in {"CONFIRMED", "CANCELED"}

(* C2: the status of a donation changes only while it is CREATED, so at     *)
(* most once; a confirm or cancel of a donation that has left CREATED       *)
(* writes nothing, sends nothing and is answered "already processed".       *)
C2_StatusChangesOnce ==
    [][/\ \A d \in DonIds :
             Settled(d) => donations'[d].status = donations[d].status
       /\ \A p \in Slots, d \in DonIds :
             (/\ Settled(d)
              /\ \/ on_confirm_donation(p, d)
                 \/ on_cancel_donation(p, d))
             => /\ UNCHANGED <<dbVars, sendVars, procs>>
                /\ out' = Answered("already processed")]_vars

(* C3: the is_anonymous flag of a CONFIRMED or CANCELED donation never      *)
(* changes, and don_anon, don_public and don_anon_set on such a donation    *)
(* write nothing and are answered "not editable".                           *)
C3_AnonymityFrozen ==
    [][/\ \A d \in DonIds :
             Settled(d) => donations'[d].is_anonymous = donations[d].is_anonymous
       /\ \A p \in Slots, u \in Donors, d \in DonIds :
             (/\ Settled(d)
              /\ \/ on_toggle_anon(p, u, d)
                 \/ on_donate_public(p, d)
                 \/ on_donate_anonymous(p, d))
             => /\ UNCHANGED <<dbVars, procs>>
                /\ out' = Answered("not editable")]_vars

(* C4: the note of a CONFIRMED or CANCELED donation never changes: neither  *)
(* don_note nor a text sent in the note step writes it.                     *)
C4_NoteFrozen ==
    [][\A d \in DonIds :
          Settled(d) => donations'[d].note = donations[d].note]_vars

(* C9: every change of is_anonymous is one flip: the flag is its value at   *)
(* creation (0) flipped once per toggle statement executed, whatever the    *)
(* interleaving, and the toggle returns the value it wrote.                 *)
C9_ToggleFlipsOnce ==
    /\ [](\A d \in DonIds : donations[d] # NoRow =>
              donations[d].is_anonymous = toggles[d])
    /\ [][\A p \in Slots :
             toggle_anon_toggle(p) =>
                /\ donations'[procs[p].did].is_anonymous
                      = 1 - donations[procs[p].did].is_anonymous
                /\ procs'[p].new_anon = donations'[procs[p].did].is_anonymous]_vars

(* C9: two toggles of one donation overlapped, one returned 1 and the       *)
(* other 0, and the flag is back at its first value.                        *)
C9_Witness ==
    \E p, q \in Slots :
       /\ procs[p].pc = "anon_default"
       /\ procs[q].pc = "anon_default"
       /\ procs[p].did = procs[q].did
       /\ procs[p].new_anon = 1
       /\ procs[q].new_anon = 0
       /\ donations[procs[p].did].is_anonymous = 0

----------------------------------------------------------------------------
(* Claims about the creation of donations, checked under SpecCreate. *)

Created(did) == donations[did] = NoRow /\ donations'[did] # NoRow

(* C5: a donation is created only while its donor has fewer than            *)
(* max_donations_per_hour CONFIRMED donations for the track inside the      *)
(* window.                                                                  *)
C5_CreationThrottled ==
    [][\A d \in DonIds :
          Created(d) =>
             count_recent_confirmed(donations'[d].donor_user_id,
                                    donations'[d].track_id, window_seconds)
                < cfg.max_donations_per_hour]_vars

Donatable(tid) ==
    /\ get_track(tid) # NoRow
    /\ get_track(tid).status = "ACTIVE"
    /\ get_artist(get_track(tid).artist_id) # NoRow

Refusal(tid) ==
    IF get_track(tid) = NoRow THEN "track not found"
    ELSE IF get_track(tid).status # "ACTIVE" THEN "track not active"
    ELSE "artist not found"

(* C10: a donation is created only for a track that exists and is ACTIVE    *)
(* and whose artist exists; for any other track the preset button and the   *)
(* custom amount, with an amount that is valid, create nothing and answer   *)
(* with the refusal.                                                        *)
C10_CreatedOnlyForActiveTrack ==
    [][/\ \A d \in DonIds :
             Created(d) =>
                /\ Donatable(donations'[d].track_id)
                /\ donations'[d].artist_id = get_track(donations'[d].track_id).artist_id
                /\ donations'[d].status = "CREATED"
       /\ \A u \in Donors, t \in TrackTokens :
             (~Donatable(t) /\ on_donation_amount_selected(u, t, <<"5", "0", "0", "0">>))
             => /\ UNCHANGED donations
                /\ out' = Answered(Refusal(t))
       /\ \A u \in Donors :
             (/\ fsm[u].data.donation_track_id # Null
              /\ ~Donatable(fsm[u].data.donation_track_id[1])
              /\ on_custom_amount(u, <<"5", ",", "0", "0", "0">>))
             => /\ UNCHANGED donations
                /\ out' = Answered(Refusal(fsm[u].data.donation_track_id[1]))]_vars

(* C10: the custom amount was refused for a track that is not ACTIVE. *)
C10_Witness ==
    /\ out.answer = "track not active"
    /\ \E t \in TrackIds : tracks[t] # NoRow /\ tracks[t].status # "ACTIVE"
    /\ \A d \in DonIds : d # 1 => donations[d] = NoRow

(* C11: a donation created by a user's preset button or custom amount has   *)
(* status CREATED, is_anonymous 0, note NULL, confirmed_at NULL, that user  *)
(* as donor_user_id and the artist_id of the track it names.                *)
C11_NewDonationFields ==
    [][\A u \in Donors, d \in DonIds :
          (/\ Created(d)
           /\ \/ \E t \in TrackTokens, a \in AmountButtons :
                    on_donation_amount_selected(u, t, a)
              \/ \E text \in AmountTexts : on_custom_amount(u, text))
          => /\ donations'[d].status = "CREATED"
             /\ donations'[d].is_anonymous = 0
             /\ donations'[d].note = Null
             /\ donations'[d].confirmed_at = Null
             /\ donations'[d].donor_user_id = u
             /\ donations'[d].artist_id = get_track(donations'[d].track_id).artist_id]_vars

(* C11: a second donation was created, for a track other than the first's. *)
C11_Witness ==
    /\ out.answer = "ask note"
    /\ \E d \in DonIds :
          /\ d # 1
          /\ donations[d] # NoRow
          /\ donations[d].status = "CREATED"
          /\ donations[d].donor_user_id \in Donors
          /\ donations[d].track_id # 1

(* C12: the step that confirms a donation writes CONFIRMED and confirmed_at, *)
(* issues one DM to the artist and, exactly when the track has an anchor    *)
(* and its genre a discussion group, one appreciation post; whether either  *)
(* send arrives changes neither the row nor the other send.                 *)
C12_ConfirmNotifiesBestEffort ==
    [][\A p \in Slots, posted, dmed \in BOOLEAN :
          confirm_finish(p, posted, dmed) =>
             LET did == procs[p].did
                 track == tracks[donations[did].track_id]
                 threaded == /\ track.discussion_anchor_message_id # 0
                             /\ cfg[GENRE_DISCUSSIONS(track.genre)] # <<>>
             IN  /\ donations'[did].status = "CONFIRMED"
                 /\ donations'[did].confirmed_at # Null
                 /\ thanks'[did].dms = thanks[did].dms + 1
                 /\ thanks'[did].posts = thanks[did].posts + (IF threaded THEN 1 ELSE 0)
                 /\ thanks'[did].dmed = thanks[did].dmed + (IF dmed THEN 1 ELSE 0)
                 /\ thanks'[did].posted =
                       thanks[did].posted + (IF threaded /\ posted THEN 1 ELSE 0)]_vars

(* C12: a donation is CONFIRMED, its appreciation post failed and the DM to *)
(* the artist arrived.                                                      *)
C12_Witness ==
    \E d \in DonIds :
       /\ donations[d] # NoRow
       /\ donations[d].status = "CONFIRMED"
       /\ donations[d].confirmed_at # Null
       /\ thanks[d].posts = 1
       /\ thanks[d].posted = 0
       /\ thanks[d].dms = 1
       /\ thanks[d].dmed = 1

----------------------------------------------------------------------------
(* Claims about the notifications of a confirmed donation, checked under   *)
(* SpecDon.                                                                 *)

(* A text names the donor when it carries the donor's display name or the   *)
(* donor's username.                                                        *)
NamesDonor(text, donation) ==
    \/ text.who = donation.donor_name
    \/ text.handle # Null /\ text.handle = donation.donor_username

(* C13: when a donation whose is_anonymous flag is 1 is confirmed, the      *)
(* appreciation post is from the placeholder "Someone" and neither the post *)
(* nor the DM to the artist carries the donor's display name or username.   *)
C13_AnonymousNotNamed ==
    [][\A p \in Slots, posted, dmed \in BOOLEAN :
          (/\ confirm_finish(p, posted, dmed)
           /\ donations[procs[p].did].is_anonymous = 1)
          => LET did == procs[p].did IN
             /\ thanks'[did].post # Null
             /\ thanks'[did].post[1].who = "Someone"
             /\ ~NamesDonor(thanks'[did].post[1], donations[did])
             /\ ~NamesDonor(thanks'[did].dm[1], donations[did])]_vars

----------------------------------------------------------------------------
(* db.py: the artists table as the guided flows of music/handlers.py use it. *)

(* A row of artists.  display_name, payment_link, default_genre and bio are *)
(* the value given, NULL included; profile_url is always given as None.     *)
ArtistProfile(tg_user_id, display_name, payment_link, default_genre, bio) ==
    [row |-> TRUE, tg_user_id |-> tg_user_id, display_name |-> display_name,
     payment_link |-> payment_link, default_genre |-> default_genre, bio |-> bio]

HasArtist(tg_user_id) ==
    \E a \in DOMAIN artists : artists[a].tg_user_id = tg_user_id

(* SELECT artist_id, ... FROM artists WHERE tg_user_id=%s *)
get_artist_by_tg_any(tg_user_id) ==
    [artist_id |-> "a1", default_genre |-> artists["a1"].default_genre]

get_artist_by_tg(tg_user_id) ==
    IF HasArtist(tg_user_id)
    THEN LET a == CHOOSE a \in DOMAIN artists : artists[a].tg_user_id = tg_user_id
         IN  [artist_id |-> a, default_genre |-> artists[a].default_genre]
    ELSE NoRow

(* "art_" + uuid4: a key no row has. *)
ArtistIds == {"a1", "a2", "a3"}

FreeArtistId == CHOOSE a \in ArtistIds : a \notin DOMAIN artists

(* The constraints of the table: display_name TEXT NOT NULL and            *)
(* tg_user_id BIGINT NOT NULL UNIQUE.  The INSERT resolves a conflict on    *)
(* artist_id only, so a second row for a tg_user_id is an IntegrityError.   *)
UniqueUser(artist_id, tg_user_id) ==
    \A a \in DOMAIN artists \ {artist_id} : artists[a].tg_user_id # tg_user_id

ArtistAccepted_unconstrained(artist_id, tg_user_id, display_name) == TRUE

ArtistAccepted(artist_id, tg_user_id, display_name) ==
    /\ display_name # Null
    /\ UniqueUser(artist_id, tg_user_id)

(* INSERT INTO artists(...) VALUES(...) ON CONFLICT(artist_id) DO UPDATE ... *)
upsert_artist(artist_id, tg_user_id, display_name, payment_link, default_genre, bio) ==
    [a \in DOMAIN artists \cup {artist_id} |->
        IF a = artist_id
        THEN ArtistProfile(tg_user_id, display_name, payment_link, default_genre, bio)
        ELSE artists[a]]

(* UPDATE artists SET {field}=%s WHERE artist_id=%s *)
update_artist_field(artist_id, field, value) ==
    [a \in DOMAIN artists |->
        IF a = artist_id
        THEN [f \in DOMAIN artists[a] |-> IF f = field THEN value ELSE artists[a][f]]
        ELSE artists[a]]

----------------------------------------------------------------------------
(* music/handlers.py: /submit, onboarding, submission, /profile, /cancel.   *)
(* A handler of these flows awaits the store at most once before its last   *)
(* write, and a user's updates are handled one after the other, so each     *)
(* handler is one step.  A message whose text starts with "/" and matches   *)
(* no command leaves a state handler at once and is left out.               *)

MaxKeyboards == 2

musicKept == <<cfg, now, tracks, donations, settings, procs, sendVars, toggles>>
musicRest == <<musicKept, conn>>

(* db.py opens one connection in _init_sync and never sets autocommit or    *)
(* calls rollback: each _sync method runs cur.execute and then              *)
(* self.conn.commit().  A statement that fails leaves before its commit,    *)
(* and the connection stays in the aborted transaction, where every later   *)
(* cur.execute raises.  Each handler of this file awaits db.get_lang (or    *)
(* db.get_artist_by_tg) before anything else, so on an aborted connection   *)
(* it raises at once, for whichever user, having changed nothing.  A        *)
(* restart opens a new connection.  No statement of the admin and donation  *)
(* handlers fails in this model, so they leave conn as it is.               *)
statement_refused(user) ==
    /\ conn = "aborted"
    /\ out' = Answered("raised")
    /\ UNCHANGED <<musicRest, artists, subs, fsm, keyboards>>

(* state.set_state(s) keeps the data; state.update_data(k=v) keeps the      *)
(* state and the other keys.                                                *)
set_state(user, s) == [fsm EXCEPT ![user].state = s]

(* An inline keyboard sent to the user, and one edited away by              *)
(* cb.message.edit_text with no reply_markup.                               *)
Issued(user, kind) == [keyboards EXCEPT ![user][kind] = @ + 1]
Edited(user, kind) == [keyboards EXCEPT ![user][kind] = @ - 1]

IsLink_any(link) == TRUE

IsLink(link) ==
    \/ startswith(link, <<"h", "t", "t", "p", ":", "/", "/">>)
    \/ startswith(link, <<"h", "t", "t", "p", "s", ":", "/", "/">>)

(* bio / caption: "-" stands for none *)
DashIsNone(text) == IF strip(text) = <<"-">> THEN Null ELSE Some(strip(text))

(* cmd_submit *)
cmd_submit(user) ==
    LET artist == get_artist_by_tg(user) IN
    /\ conn = "ready"
    /\ UNCHANGED <<musicRest, artists, subs, keyboards>>
    /\ IF artist = NoRow
       THEN /\ out' = Answered("onboard_start")
            /\ fsm' = set_state(user, "OnboardingStates:waiting_name")
       ELSE /\ out' = Answered("uploading_as")
            /\ fsm' = [fsm EXCEPT ![user] =
                   [state |-> "SubmitStates:waiting_audio",
                    data |-> [@.data EXCEPT !.artist_id = Some(artist.artist_id),
                                            !.default_genre = artist.default_genre]]]

(* onboard_name: a text message in OnboardingStates.waiting_name *)
MinNameLen == 2

onboard_name(user, text) ==
    LET name == strip(text) IN
    /\ fsm[user].state = "OnboardingStates:waiting_name"
    /\ conn = "ready"
    /\ UNCHANGED <<musicRest, artists, subs, keyboards>>
    /\ IF Len(name) < MinNameLen
       THEN /\ out' = Answered("name_too_short")
            /\ UNCHANGED fsm
       ELSE /\ out' = Answered("payment_prompt")
            /\ fsm' = [fsm EXCEPT ![user] =
                   [state |-> "OnboardingStates:waiting_payment_link",
                    data |-> [@.data EXCEPT !.onb_name = Some(name)]]]

(* onboard_paylink: a text message in OnboardingStates.waiting_payment_link *)
onboard_paylink(user, text) ==
    LET link == strip(text) IN
    /\ fsm[user].state = "OnboardingStates:waiting_payment_link"
    /\ conn = "ready"
    /\ UNCHANGED <<musicRest, artists, subs>>
    /\ IF ~IsLink(link)
       THEN /\ out' = Answered("invalid_url")
            /\ UNCHANGED <<fsm, keyboards>>
       ELSE /\ keyboards[user].onbgenre < MaxKeyboards
            /\ out' = Answered("genre_prompt")
            /\ keyboards' = Issued(user, "onbgenre")
            /\ fsm' = [fsm EXCEPT ![user] =
                   [state |-> "OnboardingStates:waiting_genre",
                    data |-> [@.data EXCEPT !.onb_paylink = Some(link)]]]

(* onboard_genre_choice: onbgenre:<genre|CANCEL>, a button of a genre        *)
(* keyboard the user holds; the handler has no state filter.                *)
onboard_genre_choice(user, choice) ==
    /\ keyboards[user].onbgenre > 0
    /\ keyboards' = Edited(user, "onbgenre")
    /\ conn = "ready"
    /\ UNCHANGED <<musicRest, artists, subs>>
    /\ IF choice = "CANCEL"
       THEN /\ out' = Answered("cancelled")
            /\ fsm' = Cleared(user)
       ELSE /\ out' = Answered("bio_prompt")
            /\ fsm' = [fsm EXCEPT ![user] =
                   [state |-> "OnboardingStates:waiting_bio",
                    data |-> [@.data EXCEPT !.onb_default_genre = Some(choice)]]]

(* onboard_bio: a text message in OnboardingStates.waiting_bio.  The three  *)
(* onb_ keys are read with data.get and passed on as they are; an           *)
(* IntegrityError of the INSERT leaves the handler before state.clear().    *)
onboard_bio(user, text) ==
    LET data == fsm[user].data
        artist_id == FreeArtistId
    IN  /\ fsm[user].state = "OnboardingStates:waiting_bio"
        /\ conn = "ready"
        /\ UNCHANGED <<musicKept, subs, keyboards>>
        /\ IF ~ArtistAccepted(artist_id, user, data.onb_name)
           THEN /\ out' = Answered("raised")
                /\ conn' = "aborted"
                /\ UNCHANGED <<artists, fsm>>
           ELSE /\ ArtistIds \ DOMAIN artists # {}
                /\ UNCHANGED conn
                /\ artists' = upsert_artist(artist_id, user, data.onb_name,
                       data.onb_paylink, data.onb_default_genre, DashIsNone(text))
                /\ out' = Answered("profile_created")
                /\ fsm' = [fsm EXCEPT ![user] =
                       [state |-> "SubmitStates:waiting_audio",
                        data |-> [NoData EXCEPT
                                     !.artist_id = Some(artist_id),
                                     !.default_genre = data.onb_default_genre]]]

(* sub_audio: an audio message in SubmitStates.waiting_audio *)
sub_audio(user, file_id) ==
    /\ fsm[user].state = "SubmitStates:waiting_audio"
    /\ conn = "ready"
    /\ UNCHANGED <<musicRest, artists, subs, keyboards>>
    /\ out' = Answered("send_title")
    /\ fsm' = [fsm EXCEPT ![user] =
           [state |-> "SubmitStates:waiting_title",
            data |-> [@.data EXCEPT !.file_id = Some(file_id)]]]

(* sub_title: a text message in SubmitStates.waiting_title *)
sub_title(user, text) ==
    LET title == strip(text) IN
    /\ fsm[user].state = "SubmitStates:waiting_title"
    /\ conn = "ready"
    /\ UNCHANGED <<musicRest, artists, subs>>
    /\ IF Len(title) < MinNameLen
       THEN /\ out' = Answered("title_too_short")
            /\ UNCHANGED <<fsm, keyboards>>
       ELSE /\ keyboards[user].subgenre < MaxKeyboards
            /\ out' = IF fsm[user].data.default_genre # Null
                      THEN Answered("choose_genre_default")
                      ELSE Answered("choose_genre")
            /\ keyboards' = Issued(user, "subgenre")
            /\ fsm' = [fsm EXCEPT ![user] =
                   [state |-> "SubmitStates:waiting_genre",
                    data |-> [@.data EXCEPT !.title = Some(title)]]]

(* sub_genre_choice: subgenre:<genre|CANCEL>; no state filter either *)
sub_genre_choice(user, choice) ==
    /\ keyboards[user].subgenre > 0
    /\ keyboards' = Edited(user, "subgenre")
    /\ conn = "ready"
    /\ UNCHANGED <<musicRest, artists, subs>>
    /\ IF choice = "CANCEL"
       THEN /\ out' = Answered("cancelled")
            /\ fsm' = Cleared(user)
       ELSE /\ out' = Answered("caption_prompt")
            /\ fsm' = [fsm EXCEPT ![user] =
                   [state |-> "SubmitStates:waiting_caption",
                    data |-> [@.data EXCEPT !.genre = Some(choice)]]]

(* sub_caption: a text message in SubmitStates.waiting_caption.  sent tells *)
(* whether bot.send_audio to the moderator, in its own try, went through;   *)
(* if so db.set_submission_admin_message stores the id of the card.         *)
Complete(data) ==
    /\ data.artist_id # Null
    /\ data.file_id # Null
    /\ data.title # Null
    /\ data.genre # Null

(* The answer after create_submission: the send to the moderator has a try *)
(* of its own inside the outer one, so its failure is only logged.          *)
AnswerAfterCard_one_try(sent) ==
    IF sent THEN "submission_received" ELSE "submission_failed"

AnswerAfterCard(sent) == "submission_received"

sub_caption(user, text, sent) ==
    LET data == fsm[user].data
        sid == FreeSubId
    IN  /\ fsm[user].state = "SubmitStates:waiting_caption"
        /\ conn = "ready"
        /\ UNCHANGED <<musicRest, artists, keyboards>>
        /\ fsm' = Cleared(user)
        /\ IF ~Complete(data)
           THEN /\ out' = Answered("something_wrong")
                /\ UNCHANGED subs
           ELSE IF get_artist(data.artist_id[1]) = NoRow
           THEN /\ out' = Answered("something_wrong")
                /\ UNCHANGED subs
           ELSE /\ \E s \in SubIds : subs[s] = NoRow
                /\ subs' = [subs EXCEPT ![sid] =
                       [SubmissionRow(data.artist_id[1], user, data.genre[1],
                                      data.file_id[1])
                           EXCEPT !.admin_message_id =
                                      IF sent THEN Some(sid) ELSE Null]]
                /\ out' = Answered(AnswerAfterCard(sent))

(* cmd_cancel *)
cmd_cancel(user) ==
    /\ conn = "ready"
    /\ UNCHANGED <<musicRest, artists, subs, keyboards>>
    /\ fsm' = Cleared(user)
    /\ out' = IF fsm[user].state # "none"
              THEN Answered("cancelled") ELSE Answered("nothing_to_cancel")

(* cmd_profile *)
cmd_profile(user) ==
    /\ conn = "ready"
    /\ UNCHANGED <<musicRest, artists, subs, fsm>>
    /\ IF get_artist_by_tg(user) = NoRow
       THEN /\ out' = Answered("no_profile")
            /\ UNCHANGED keyboards
       ELSE /\ keyboards[user].profile < MaxKeyboards
            /\ out' = Answered("profile")
            /\ keyboards' = Issued(user, "profile")

(* on_profile_edit: profile:edit:<field>, a button of kb_profile_actions *)
on_profile_edit(user, field) ==
    LET artist == get_artist_by_tg(user) IN
    /\ keyboards[user].profile > 0
    /\ conn = "ready"
    /\ UNCHANGED <<musicRest, artists, subs>>
    /\ IF artist = NoRow
       THEN /\ out' = Answered("no_profile")
            /\ keyboards' = Edited(user, "profile")
            /\ UNCHANGED fsm
       ELSE /\ field = "default_genre" => keyboards[user].profilegenre < MaxKeyboards
            /\ keyboards' =
                  IF field = "default_genre"
                  THEN [keyboards EXCEPT ![user].profile = @ - 1,
                                         ![user].profilegenre = @ + 1]
                  ELSE Edited(user, "profile")
            /\ out' = IF field = "default_genre"
                      THEN Answered("choose_genre") ELSE Answered("edit_prompt")
            /\ fsm' = [fsm EXCEPT ![user] =
                   [state |-> "ProfileEditStates:waiting_value",
                    data |-> [@.data EXCEPT !.edit_artist_id = Some(artist.artist_id),
                                            !.edit_field = Some(field)]]]

(* on_profile_genre_choice: profilegenre:<genre|CANCEL>; no state filter *)
on_profile_genre_choice(user, choice) ==
    LET artist_ref == fsm[user].data.edit_artist_id IN
    /\ keyboards[user].profilegenre > 0
    /\ keyboards' = Edited(user, "profilegenre")
    /\ conn = "ready"
    /\ UNCHANGED <<musicRest, subs>>
    /\ fsm' = Cleared(user)
    /\ IF choice = "CANCEL"
       THEN /\ out' = Answered("cancelled")
            /\ UNCHANGED artists
       ELSE IF artist_ref = Null
       THEN /\ out' = Answered("session_expired")
            /\ UNCHANGED artists
       ELSE /\ artists' = update_artist_field(artist_ref[1], "default_genre", Some(choice))
            /\ out' = Answered("genre_updated")

(* on_profile_edit_text: a text message in ProfileEditStates.waiting_value. *)
(* A display_name set to NULL is an IntegrityError, which leaves the        *)
(* handler before state.clear().                                            *)
on_profile_edit_text(user, text) ==
    LET artist_ref == fsm[user].data.edit_artist_id
        field_ref == fsm[user].data.edit_field
        val == IF strip(text) = <<>> THEN Null
               ELSE IF field_ref = Some("bio") THEN DashIsNone(text)
               ELSE Some(strip(text))
    IN  /\ fsm[user].state = "ProfileEditStates:waiting_value"
        /\ conn = "ready"
        /\ UNCHANGED <<musicKept, subs, keyboards>>
        /\ IF artist_ref = Null \/ field_ref = Null
           THEN /\ out' = Answered("session_expired")
                /\ fsm' = Cleared(user)
                /\ UNCHANGED <<artists, conn>>
           ELSE IF field_ref = Some("display_name") /\ val = Null
           THEN /\ out' = Answered("raised")
                /\ conn' = "aborted"
                /\ UNCHANGED <<artists, fsm>>
           ELSE /\ artists' = update_artist_field(artist_ref[1], field_ref[1], val)
                /\ out' = Answered("updated")
                /\ fsm' = Cleared(user)
                /\ UNCHANGED conn

----------------------------------------------------------------------------
(* The guided flows: a store where user 1 is an onboarded artist with the   *)
(* published tracks, and user 2, who has no Artist, acts.                   *)

Newcomer == 2

HttpLink == <<"h", "t", "t", "p", ":", "/", "/", "x">>

FirstArtist == ArtistProfile(1, Some(<<"A", "l", "i">>), Some(HttpLink), Some("Pop"), Null)

InitFlows ==
    /\ cfg = PopConfig
    /\ conn = "ready"
    /\ now = 0
    /\ artists = [a \in {"a1"} |-> FirstArtist]
    /\ subs = [s \in SubIds |-> NoRow]
    /\ tracks = [t \in TrackIds |-> PublishedTrack(t)]
    /\ donations = [d \in DonIds |-> NoRow]
    /\ settings = [u \in Users |-> Null]
    /\ fsm = [u \in Users |-> NoSession]
    /\ procs = [q \in Slots |-> Idle]
    /\ published = {}
    /\ notified = [s \in SubIds |-> [approved |-> 0, rejected |-> 0]]
    /\ thanks = [d \in DonIds |-> NoThanks]
    /\ toggles = [d \in DonIds |-> 0]
    /\ out = Answered("none")
    /\ keyboards = [u \in Users |-> NoKeyboards]

ShortNames == { <<"D">>, <<" ", "D", " ">> }
NameTexts == ShortNames \cup { <<" ", "D", "j", " ">> }
NotLinks == { <<"x", ".", "u", "z">> }
LinkTexts == NotLinks \cup { <<"h", "t", "t", "p", "s", ":", "/", "/", "x">> }
BioTexts == { <<"-">>, <<"b", "i", "o">> }
GenreChoices == { "Rock", "CANCEL" }
NotAmounts == { <<"x">> }
LowAmounts == { <<"9", "9", "9">> }
HighAmounts == { <<"1", "0", "0", "0", "0", "0", "1">> }
FlowAmounts == NotAmounts \cup LowAmounts \cup HighAmounts \cup { <<"5", ",", "0", "0", "0">> }

NextFlows ==
    \/ cmd_submit(Newcomer)
    \/ \E text \in NameTexts : onboard_name(Newcomer, text)
    \/ \E text \in LinkTexts : onboard_paylink(Newcomer, text)
    \/ \E choice \in GenreChoices : onboard_genre_choice(Newcomer, choice)
    \/ \E text \in BioTexts : onboard_bio(Newcomer, text)
    \/ sub_audio(Newcomer, "f1")
    \/ \E text \in NameTexts : sub_title(Newcomer, text)
    \/ \E choice \in GenreChoices : sub_genre_choice(Newcomer, choice)
    \/ \E text \in BioTexts, sent \in BOOLEAN : sub_caption(Newcomer, text, sent)
    \/ cmd_cancel(Newcomer)
    \/ on_donation_amount_selected(Newcomer, 1, Custom)
    \/ \E text \in FlowAmounts : on_custom_amount(Newcomer, text)
    \/ statement_refused(Newcomer)

SpecFlows == InitFlows /\ [][NextFlows]_vars

----------------------------------------------------------------------------
(* The profile edits: in the same store, user 1, the onboarded artist, acts. *)

Onboarded == 1

ProfileFields == { "display_name", "payment_link", "default_genre", "bio" }
EditTexts == { <<" ">>, <<"-">>, <<"Z">> }

NextProfile ==
    \/ cmd_profile(Onboarded)
    \/ \E field \in ProfileFields : on_profile_edit(Onboarded, field)
    \/ \E choice \in GenreChoices : on_profile_genre_choice(Onboarded, choice)
    \/ \E text \in EditTexts : on_profile_edit_text(Onboarded, text)
    \/ cmd_cancel(Onboarded)
    \/ statement_refused(Onboarded)

SpecProfile == InitFlows /\ [][NextProfile]_vars

----------------------------------------------------------------------------
(* Claims about /submit and onboarding, checked under SpecFlows. *)

OnboardingSteps ==
    { "OnboardingStates:waiting_name", "OnboardingStates:waiting_payment_link",
      "OnboardingStates:waiting_genre", "OnboardingStates:waiting_bio" }

(* The artist_id of the user's Artist row. *)
OwnArtistId(user) == CHOOSE a \in DOMAIN artists : artists[a].tg_user_id = user

(* C14: /submit puts a user who has an Artist row in the audio-upload step  *)
(* with the session's artist_id and default_genre set to those of that row, *)
(* and a user with no Artist row in the name-collection step.               *)
C14_SubmitRoutesByArtist ==
    [][cmd_submit(Newcomer) =>
          IF HasArtist(Newcomer)
          THEN /\ fsm'[Newcomer].state = "SubmitStates:waiting_audio"
               /\ fsm'[Newcomer].state \notin OnboardingSteps
               /\ fsm'[Newcomer].data.artist_id = Some(OwnArtistId(Newcomer))
               /\ fsm'[Newcomer].data.default_genre =
                     artists[OwnArtistId(Newcomer)].default_genre
          ELSE fsm'[Newcomer].state = "OnboardingStates:waiting_name"]_vars

(* C14: the user, onboarded, has invoked /submit again and is in the       *)
(* audio-upload step with their own artist_id and default genre.           *)
C14_Witness ==
    /\ HasArtist(Newcomer)
    /\ out.answer = "uploading_as"
    /\ fsm[Newcomer].state = "SubmitStates:waiting_audio"
    /\ fsm[Newcomer].data.artist_id = Some(OwnArtistId(Newcomer))
    /\ fsm[Newcomer].data.default_genre = Some("Rock")

(* C15: a user who has an Artist row is in no onboarding step (name,        *)
(* payment link, genre or bio collection), whatever the user did before.   *)
C15_ArtistNeverOnboarding ==
    \A u \in Users :
       HasArtist(u) => fsm[u].state \notin OnboardingSteps

(* The Artist rows of a platform user. *)
ArtistsOf(user) == { a \in DOMAIN artists : artists[a].tg_user_id = user }

(* C16: no platform user ever has two Artist rows, and an onboarding that   *)
(* completes (onboard_bio reports the profile created) adds exactly one     *)
(* row, whose tg_user_id is the user who sent the bio, and changes no other. *)
C16_OneArtistPerUser ==
    /\ [](\A u \in Users : Cardinality(ArtistsOf(u)) <= 1)
    /\ [][\A text \in BioTexts :
             (onboard_bio(Newcomer, text) /\ out'.answer = "profile_created")
             => /\ ArtistsOf(Newcomer) = {}
                /\ \E a \in ArtistIds \ DOMAIN artists :
                      /\ DOMAIN artists' = DOMAIN artists \cup {a}
                      /\ artists'[a].tg_user_id = Newcomer
                /\ \A b \in DOMAIN artists : artists'[b] = artists[b]]_vars

(* C16: the user has just completed an onboarding and holds one Artist row, *)
(* with the name collected, next to the row of user 1.                      *)
C16_Witness ==
    /\ out.answer = "profile_created"
    /\ Cardinality(ArtistsOf(Newcomer)) = 1
    /\ Cardinality(DOMAIN artists) = 2
    /\ artists[OwnArtistId(Newcomer)].display_name = Some(<<"D", "j">>)
    /\ fsm[Newcomer].state = "SubmitStates:waiting_audio"

(* The name and the payment link an onboarding has collected. *)
Collected(data) ==
    /\ data.onb_name # Null
    /\ Len(data.onb_name[1]) >= MinNameLen
    /\ data.onb_paylink # Null
    /\ IsLink(data.onb_paylink[1])

(* C17: the session enters the bio step only from the genre step, with a    *)
(* name of at least 2 characters and an http(s) payment link collected; an  *)
(* Artist row is created only by a bio sent in the bio step, from the       *)
(* collected name, link and genre; and a cancel clears the session and      *)
(* creates no Artist.                                                       *)
C17_OnboardingInOrder ==
    [][/\ (/\ fsm'[Newcomer].state = "OnboardingStates:waiting_bio"
           /\ fsm[Newcomer].state # "OnboardingStates:waiting_bio")
          => /\ fsm[Newcomer].state = "OnboardingStates:waiting_genre"
             /\ Collected(fsm[Newcomer].data)
       /\ fsm'[Newcomer].state = "OnboardingStates:waiting_genre"
          => fsm[Newcomer].state \in { "OnboardingStates:waiting_payment_link",
                                       "OnboardingStates:waiting_genre" }
       /\ fsm'[Newcomer].state = "OnboardingStates:waiting_payment_link"
          => fsm[Newcomer].state \in { "OnboardingStates:waiting_name",
                                       "OnboardingStates:waiting_payment_link" }
       /\ artists' # artists
          => /\ fsm[Newcomer].state = "OnboardingStates:waiting_bio"
             /\ Collected(fsm[Newcomer].data)
             /\ \E a \in DOMAIN artists' \ DOMAIN artists :
                   /\ artists'[a].display_name = fsm[Newcomer].data.onb_name
                   /\ artists'[a].payment_link = fsm[Newcomer].data.onb_paylink
                   /\ artists'[a].default_genre = fsm[Newcomer].data.onb_default_genre
       /\ (cmd_cancel(Newcomer) \/ onboard_genre_choice(Newcomer, "CANCEL"))
          => /\ fsm'[Newcomer] = NoSession
             /\ artists' = artists]_vars

----------------------------------------------------------------------------
(* Claims about sessions with fields missing, checked under SpecFlows. *)

(* The fields onboard_bio takes from the steps before it. *)
Onboarded_fields(data) ==
    /\ data.onb_name # Null
    /\ data.onb_paylink # Null
    /\ data.onb_default_genre # Null

(* The answers that tell the user the session is gone and to start again. *)
ExpiredAnswers == { "session expired", "session_expired", "something_wrong" }

(* C18: a bio sent in the bio step with the name, the link or the genre of  *)
(* the onboarding missing, and a caption sent in the caption step with the  *)
(* artist_id, the file, the title or the genre missing, are answered with   *)
(* the session-expired outcome, clear the session and write no row; neither *)
(* raises nor goes on with the missing value.                               *)
C18_MissingFieldsExpire ==
    [][/\ \A text \in BioTexts :
             (onboard_bio(Newcomer, text) /\ ~Onboarded_fields(fsm[Newcomer].data))
             => /\ out'.answer \in ExpiredAnswers
                /\ fsm'[Newcomer] = NoSession
                /\ artists' = artists
       /\ \A text \in BioTexts, sent \in BOOLEAN :
             (sub_caption(Newcomer, text, sent) /\ ~Complete(fsm[Newcomer].data))
             => /\ out'.answer \in ExpiredAnswers
                /\ fsm'[Newcomer] = NoSession
                /\ subs' = subs]_vars

----------------------------------------------------------------------------
(* Claims about the validation of the guided steps, checked under SpecFlows. *)

(* C19: a name or a title of one character, a payment link that starts      *)
(* with neither http:// nor https://, and a custom amount that is no        *)
(* number, below the minimum or above the maximum leave the session (step   *)
(* and fields) and the store as they were and are answered with the         *)
(* message of that failure.                                                 *)
C19_InvalidInputKeepsSession ==
    [][/\ \A text \in ShortNames :
             onboard_name(Newcomer, text)
             => out'.answer = "name_too_short" /\ UNCHANGED <<fsm, dbVars>>
       /\ \A text \in NotLinks :
             onboard_paylink(Newcomer, text)
             => out'.answer = "invalid_url" /\ UNCHANGED <<fsm, dbVars>>
       /\ \A text \in ShortNames :
             sub_title(Newcomer, text)
             => out'.answer = "title_too_short" /\ UNCHANGED <<fsm, dbVars>>
       /\ \A text \in NotAmounts :
             on_custom_amount(Newcomer, text)
             => out'.answer = "invalid number" /\ UNCHANGED <<fsm, dbVars>>
       /\ \A text \in LowAmounts :
             on_custom_amount(Newcomer, text)
             => out'.answer = "below minimum" /\ UNCHANGED <<fsm, dbVars>>
       /\ \A text \in HighAmounts :
             on_custom_amount(Newcomer, text)
             => out'.answer = "above maximum" /\ UNCHANGED <<fsm, dbVars>>]_vars

(* C19: the user was told the link is invalid and is still in the payment   *)
(* link step with the name collected before.                                *)
C19_Witness ==
    /\ out.answer = "invalid_url"
    /\ fsm[Newcomer].state = "OnboardingStates:waiting_payment_link"
    /\ fsm[Newcomer].data.onb_name = Some(<<"D", "j">>)
    /\ ~HasArtist(Newcomer)

----------------------------------------------------------------------------
(* Claims about the end of the submission flow, checked under SpecFlows. *)

(* C20: a caption that completes a submission whose review card cannot be   *)
(* sent to the moderator still creates the Submission, PENDING and with     *)
(* admin_message_id NULL, answers the submitter with the received message   *)
(* and clears the session; when the card is sent the row carries its        *)
(* message id.                                                              *)
C20_SubmissionSurvivesCardFailure ==
    [][\A text \in BioTexts, sent \in BOOLEAN :
          (/\ sub_caption(Newcomer, text, sent)
           /\ Complete(fsm[Newcomer].data)
           /\ get_artist(fsm[Newcomer].data.artist_id[1]) # NoRow)
          => /\ subs[FreeSubId] = NoRow
             /\ subs'[FreeSubId] # NoRow
             /\ subs'[FreeSubId].status = "PENDING"
             /\ subs'[FreeSubId].submitter_user_id = Newcomer
             /\ subs'[FreeSubId].artist_id = fsm[Newcomer].data.artist_id[1]
             /\ (subs'[FreeSubId].admin_message_id = Null) <=> ~sent
             /\ out'.answer = "submission_received"
             /\ fsm'[Newcomer] = NoSession]_vars

(* C20: a Submission of the user is PENDING with no moderator message, the  *)
(* user was told it was received and the session is cleared.                *)
C20_Witness ==
    /\ out.answer = "submission_received"
    /\ fsm[Newcomer] = NoSession
    /\ \E s \in SubIds :
          /\ subs[s] # NoRow
          /\ subs[s].status = "PENDING"
          /\ subs[s].submitter_user_id = Newcomer
          /\ subs[s].admin_message_id = Null

----------------------------------------------------------------------------
(* Further claims about the review pipeline, checked under SpecAdmin. *)

(* The channel posts made by a step. *)
NewPosts == published' \ published

C22_RejectWritesStatusOnly ==
    [][\A p \in Slots, edited, sent \in BOOLEAN :
          (/\ reject_finish(p, FALSE, edited, sent)
           /\ subs[procs[p].sid].status = "PENDING")
          => /\ subs'[procs[p].sid].status = "REJECTED"
             /\ subs'[procs[p].sid].reviewed_at = Some(now)
             /\ tracks' = tracks
             /\ published' = published
             /\ out'.answer = "rejected"]_vars

(* C22: a submission is REJECTED with reviewed_at set while the card edit   *)
(* and the notice both failed; there is no Track and no channel post.       *)
C22_Witness ==
    /\ out = Shown("rejected", "REJECTED", FALSE)
    /\ published = {}
    /\ \A t \in TrackIds : tracks[t] = NoRow
    /\ \E sid \in SubIds :
          /\ subs[sid] # NoRow
          /\ subs[sid].status = "REJECTED"
          /\ subs[sid].reviewed_at # Null
          /\ notified[sid].rejected = 0

(* The Tracks made from a submission: those that carry its audio file. *)
TracksFrom(sid) ==
    { t \in TrackIds : tracks[t] # NoRow /\ tracks[t].telegram_file_id = sid }

----------------------------------------------------------------------------
(* Further claims about the edits of a donation, checked under SpecDon. *)

(* C24: the write of a cancel changes the status of its donation to         *)
(* CANCELED and nothing else: amount, note, is_anonymous and confirmed_at   *)
(* of the row, the other rows and the user settings stay, and no post or DM *)
(* is sent.                                                                 *)
C24_CancelWritesStatusOnly ==
    [][\A p \in Slots :
          cancel_finish(p)
          => /\ donations' = [donations EXCEPT ![procs[p].did].status = "CANCELED"]
             /\ donations'[procs[p].did].amount = donations[procs[p].did].amount
             /\ donations'[procs[p].did].note = donations[procs[p].did].note
             /\ donations'[procs[p].did].is_anonymous = donations[procs[p].did].is_anonymous
             /\ donations'[procs[p].did].confirmed_at = donations[procs[p].did].confirmed_at
             /\ UNCHANGED <<settings, sendVars>>
             /\ out'.answer = "canceled"]_vars

(* C24: an anonymous donation with a note was cancelled; it keeps both, has *)
(* no confirmed_at and nothing was sent for it.                             *)
C24_Witness ==
    /\ out.answer = "canceled"
    /\ \E d \in DonIds :
          /\ donations[d] # NoRow
          /\ donations[d].status = "CANCELED"
          /\ donations[d].is_anonymous = 1
          /\ donations[d].note # Null
          /\ donations[d].confirmed_at = Null
          /\ thanks[d] = NoThanks

(* C25: a public (0) or anonymous (1) choice that finds the flag of the     *)
(* donation already as chosen writes nothing and shows the confirmation     *)
(* card; one that finds it different, and whose write finds it as it was    *)
(* read, leaves the flag as chosen and shows the card.                      *)
C25_ChoiceSetsFlag ==
    [][/\ \A p \in Slots, d \in DonIds, wanted \in {0, 1} :
             (/\ choose_anonymity(p, d, wanted)
              /\ donations[d] # NoRow
              /\ donations[d].status = "CREATED"
              /\ donations[d].is_anonymous = wanted)
             => /\ UNCHANGED <<dbVars, toggles, procs>>
                /\ out' = Answered("card")
       /\ \A p \in Slots :
             (/\ set_anon_finish(p)
              /\ donations[procs[p].did].status = "CREATED"
              /\ donations[procs[p].did].is_anonymous # procs[p].wanted)
             => /\ donations'[procs[p].did].is_anonymous = procs[p].wanted
                /\ toggles'[procs[p].did] # toggles[procs[p].did]
                /\ out' = Answered("card")]_vars

(* C25: the donation is CREATED and anonymous after one write, and the      *)
(* card is shown.                                                           *)
C25_Witness ==
    /\ out = Answered("card")
    /\ \A p \in Slots : procs[p] = Idle
    /\ donations[1].status = "CREATED"
    /\ donations[1].is_anonymous = 1
    /\ toggles[1] = 1
    /\ settings = [u \in Users |-> Null]

----------------------------------------------------------------------------
(* music/handlers.py, on_lang_choice: lang:<code>.  The language is stored  *)
(* first; the handler then asks db.get_user_type, which db.py does not      *)
(* define, and ends there.                                                  *)
on_lang_choice(user, lang) ==
    /\ UNCHANGED <<cfg, conn, now, keyboards, artists, subs, tracks, donations, fsm, procs,
                   sendVars, toggles>>
    /\ IF lang \notin {"uz", "ru"}
       THEN /\ out' = Answered("invalid_language")
            /\ UNCHANGED settings
       ELSE /\ settings' = set_lang(user, lang)
            /\ out' = Answered("raised")

(* The re-toggle from the confirmation card, by a user who may have chosen  *)
(* a language: the store of the donation edits.                             *)
LangCodes == { "uz", "ru", "en" }

NextToggle ==
    \/ \E u \in Donors, lang \in LangCodes : on_lang_choice(u, lang)
    \/ \E p \in Slots, u \in Donors, d \in DonTokens : on_toggle_anon(p, u, d)
    \/ \E p \in Slots : toggle_anon_toggle(p)
    \/ \E p \in Slots : toggle_anon_finish(p)
    \/ \E p \in Slots, d \in DonTokens : on_confirm_donation(p, d)
    \/ \E p \in Slots, posted, dmed \in BOOLEAN : confirm_finish(p, posted, dmed)

SpecToggle == InitDon /\ [][NextToggle]_vars

(* C26: the last step of a re-toggle stores the flag its toggle wrote to    *)
(* the donation as the anonymous_default of the user who tapped: a user     *)
(* with no row gets one, a user with a row keeps its language.              *)
C26_ToggleStoresDefault ==
    [][\A p \in Slots :
          toggle_anon_finish(p)
          => LET user == procs[p].user IN
             /\ settings'[user] # Null
             /\ settings'[user][1].anonymous_default = procs[p].new_anon
             /\ settings[user] # Null
                => settings'[user][1].lang = settings[user][1].lang
             /\ \A u \in Users \ {user} : settings'[u] = settings[u]
             /\ donations' = donations]_vars

(* C26: the user, who chose Russian before, has re-toggled the donation to  *)
(* anonymous; the default is 1 and the language is still Russian.           *)
C26_Witness ==
    /\ out.answer = "updated"
    /\ \A p \in Slots : procs[p] = Idle
    /\ donations[1].status = "CREATED"
    /\ donations[1].is_anonymous = 1
    /\ settings[2] = Some([lang |-> "ru", anonymous_default |-> 1])

----------------------------------------------------------------------------
(* Claims about the custom amount, checked under SpecCreate. *)

Refusals == { "invalid number", "below minimum", "above maximum" }

AmountsOf(rows) == { rows[d].amount : d \in { e \in DonIds : rows[e] # NoRow } }

(* C27: a typed custom amount is read with its blanks and commas removed   *)
(* ("15000", "15,000" and "15 000" are all 15000); a text that is no       *)
(* number, a number under 1000 and a number over 1000000 are each refused  *)
(* with an answer of their own and create no donation; a number from 1000  *)
(* to 1000000 is not refused, and the donation it creates has that amount. *)
C27_CustomAmountParsed ==
    [][\A u \in Donors, c \in CustomAmounts :
          on_custom_amount(u, c.text) =>
             /\ c.number = Null =>
                   out'.answer = "invalid number" /\ donations' = donations
             /\ c.number # Null /\ c.number[1] < 1000 =>
                   out'.answer = "below minimum" /\ donations' = donations
             /\ c.number # Null /\ c.number[1] > 1000000 =>
                   out'.answer = "above maximum" /\ donations' = donations
             /\ c.number # Null /\ c.number[1] \in 1000..1000000 =>
                   /\ out'.answer \notin Refusals
                   /\ \A d \in DonIds :
                         donations'[d] # donations[d] =>
                            /\ donations[d] = NoRow
                            /\ donations'[d].amount = c.number[1]
                            /\ out'.answer = "ask note"
                   /\ out'.answer = "ask note" => donations' # donations]_vars

(* C27: a donation of 15000 was created from a typed amount and the       *)
(* session is cleared.                                                    *)
C27_Witness ==
    /\ out.answer = "ask note"
    /\ 15000 \in AmountsOf(donations)
    /\ fsm[2] = NoSession

----------------------------------------------------------------------------
(* The note of a donation: the donor of the CREATED donation sends texts   *)
(* put together from pieces.                                               *)

Filler == [i \in 1..(NoteMax - 1) |-> "A"]

NotePieces ==
    { <<>>, <<" ">>, <<"\t">>, <<"h", "i">>, <<"h", "t">>,
      <<"t", "p", ":", "/", "/", "e">>,
      <<"h", "t", "t", "p", ":", "/", "/">>,
      <<"h", "t", "t", "p", ":", "/", "/", "x">>,
      <<"h", "t", "t", "p", "s", ":", "/", "/", "y">>,
      <<"H", "T", "T", "P", ":", "/", "/", "X">> }

NoteInputs ==
    { a \o b : a, b \in NotePieces }
       \cup { Filler \o a \o b : a \in { <<>>, <<" ">> }, b \in NotePieces }
       \cup { <<"h", "t">> \o a \o <<"t", "p", ":", "/", "/", "e">> :
                a \in NotePieces }
       \cup { <<"h", "i">> \o a \o <<"h", "i">> : a \in NotePieces }

NextNote ==
    \/ \E u \in Donors, d \in DonTokens : on_add_note(u, d)
    \/ \E u \in Donors, text \in NoteInputs : on_note_text(u, text)

SpecNote == InitDon /\ [][NextNote]_vars

----------------------------------------------------------------------------
(* Claims about the note, checked under SpecNote. *)

(* The letters of a scheme in lower case. *)
Lower(c) ==
    CASE c = "H" -> "h" [] c = "T" -> "t" [] c = "P" -> "p" [] c = "S" -> "s"
      [] OTHER -> c

(* A URL starts at position i of the text: http:// or https://, in any     *)
(* letter case, and a character that is no blank.                          *)
UrlLikeAt(text, i) ==
    LET last == IF i + SchemeWindow - 1 < Len(text)
                THEN i + SchemeWindow - 1 ELSE Len(text)
    IN  UrlAt([k \in 1..(last - i + 1) |-> Lower(text[k + i - 1])])

OnlyBlanks(text) == \A i \in 1..Len(text) : text[i] \in Blanks

(* C28: the note stored for a text has no URL in it, has one space where   *)
(* the text had a run of blanks and no blank at its head, is at most 120   *)
(* characters long, and is null, never the empty text, exactly when only   *)
(* blanks are left of the text once its URLs are removed.                  *)
C28_NoteSanitized ==
    [][\A u \in Donors, text \in NoteInputs :
          (/\ on_note_text(u, text)
           /\ fsm[u].data.donation_id # Null
           /\ get_donation(fsm[u].data.donation_id[1]) # NoRow)
          => LET note == donations'[fsm[u].data.donation_id[1]].note IN
             /\ note # Some(<<>>)
             /\ note = Null <=> OnlyBlanks(RemoveUrls(text))
             /\ note # Null =>
                   /\ Len(note[1]) <= 120
                   /\ note[1][1] \notin Blanks
                   /\ \A i \in 1..Len(note[1]) :
                         note[1][i] \in Blanks =>
                            /\ note[1][i] = " "
                            /\ i < Len(note[1]) => note[1][i + 1] \notin Blanks
                   /\ \A i \in 1..Len(note[1]) : ~UrlLikeAt(note[1], i)]_vars

----------------------------------------------------------------------------
(* The moderator's actions in flight together, with no call that fails     *)
(* but the best-effort ones (anchor, card edit, notice).                   *)

NextRace ==
    \/ \E p \in Slots, sid \in SubTokens : on_admin_approve(p, AdminId, sid)
    \/ \E p \in Slots, anchored, edited, sent \in BOOLEAN :
          approve_finish(p, "none", anchored, edited, sent)
    \/ \E p \in Slots, sid \in SubTokens : on_admin_reject(p, AdminId, sid)
    \/ \E p \in Slots, edited, sent \in BOOLEAN :
          reject_finish(p, FALSE, edited, sent)
    \/ \E g \in SubGenres : create_submission("a1", g)

SpecRace == InitAdmin /\ [][NextRace]_vars

----------------------------------------------------------------------------
(* Claims about moderator actions in flight together, checked under SpecRace. *)

(* The channel posts that carry the audio of a submission. *)
PostsOf(sid) == { post \in published : post.audio = sid }

----------------------------------------------------------------------------
(* The confirm and the cancel of the CREATED donation in flight together.  *)

NextSettle ==
    \/ \E p \in Slots, d \in DonTokens : on_confirm_donation(p, d)
    \/ \E p \in Slots, posted, dmed \in BOOLEAN : confirm_finish(p, posted, dmed)
    \/ \E p \in Slots, d \in DonTokens : on_cancel_donation(p, d)
    \/ \E p \in Slots : cancel_finish(p)

SpecSettle == InitDon /\ [][NextSettle]_vars

----------------------------------------------------------------------------
(* Claims about confirm and cancel in flight together, checked under       *)
(* SpecSettle.                                                             *)

Quiet == \A p \in Slots : procs[p] = Idle

(* C30: whatever the interleaving of the confirms and cancels in flight on *)
(* a CREATED donation, its status, once it is CONFIRMED or CANCELED, never *)
(* changes again, the appreciation post and the DM to the artist each      *)
(* arrive at most once, and when no handler is in flight a donation for    *)
(* which either arrived is CONFIRMED.                                      *)
C30_SettledOnce ==
    /\ [][\A d \in DonIds :
             (donations[d] # NoRow /\ donations[d].status # "CREATED")
             => donations'[d].status = donations[d].status]_vars
    /\ [](\A d \in DonIds :
             /\ thanks[d].posted <= 1
             /\ thanks[d].dmed <= 1
             /\ (Quiet /\ thanks[d].posted + thanks[d].dmed > 0)
                => donations[d].status = "CONFIRMED")

----------------------------------------------------------------------------
(* Claims about the order of an approval, checked under SpecAdmin. *)

(* The posts a track row can point to: those of its audio with its channel *)
(* message id.                                                             *)
PostOfTrack(t) ==
    { post \in published :
         /\ post.audio = tracks[t].telegram_file_id
         /\ post.message_id = tracks[t].channel_message_id }

----------------------------------------------------------------------------
(* Claims about the amounts stored, checked under SpecCreate. *)

PresetAmounts == {5000, 10000, 25000}

(* C32: every donation stored has an amount that is one of the presets     *)
(* 5000, 10000, 25000 or lies in 1000..1000000, whatever amount the         *)
(* donamtsel token or the typed text carried.                               *)
C32_AmountsBounded ==
    \A d \in DonIds :
       donations[d] # NoRow =>
          \/ donations[d].amount \in PresetAmounts
          \/ donations[d].amount \in 1000..1000000

----------------------------------------------------------------------------
(* The review pipeline with no send and no write failing.  The event loop  *)
(* resumes a handler whose awaited call has returned, so the rest of an    *)
(* approval or a rejection in flight is taken under weak fairness.         *)

NextReview ==
    \/ \E p \in Slots, actor \in {AdminId, 1}, sid \in SubTokens :
          on_admin_approve(p, actor, sid)
    \/ \E p \in Slots : approve_finish(p, "none", TRUE, TRUE, TRUE)
    \/ \E p \in Slots, actor \in {AdminId, 1}, sid \in SubTokens :
          on_admin_reject(p, actor, sid)
    \/ \E p \in Slots : reject_finish(p, FALSE, TRUE, TRUE)
    \/ \E g \in SubGenres : create_submission("a1", g)

SpecReview ==
    /\ InitAdmin
    /\ [][NextReview]_vars
    /\ \A p \in Slots : WF_vars(approve_finish(p, "none", TRUE, TRUE, TRUE))
    /\ \A p \in Slots : WF_vars(reject_finish(p, FALSE, TRUE, TRUE))

----------------------------------------------------------------------------
(* Claims about the end of an approval, checked under SpecReview. *)

----------------------------------------------------------------------------
(* Claims about a flow started over, checked under SpecFlows. *)

(* C34: a /submit by an artist starts the flow with no file, title or      *)
(* genre in the session; a genre button moves the session to the caption   *)
(* step only from the genre step; and a Submission is created only in the  *)
(* caption step, from a session that holds all its fields.                 *)
C34_RestartAbandons ==
    [][/\ (cmd_submit(Newcomer) /\ HasArtist(Newcomer))
          => /\ fsm'[Newcomer].data.file_id = Null
             /\ fsm'[Newcomer].data.title = Null
             /\ fsm'[Newcomer].data.genre = Null
       /\ \A choice \in GenreChoices :
             (/\ sub_genre_choice(Newcomer, choice)
              /\ fsm[Newcomer].state # "SubmitStates:waiting_genre")
             => fsm'[Newcomer].state # "SubmitStates:waiting_caption"
       /\ subs' # subs
          => /\ fsm[Newcomer].state = "SubmitStates:waiting_caption"
             /\ Complete(fsm[Newcomer].data)]_vars

----------------------------------------------------------------------------
(* The channel of an approval: deployments whose channel settings are      *)
(* unset, blank, zero, a numeric id or a name, and submissions of the      *)
(* genres of the map and of one outside it.                                *)

ChannelConfigs ==
    { [EmptyConfig EXCEPT !.channel_pop = pop, !.channel_hiphop = hiphop,
                          !.channel_discovery = discovery] :
         pop \in { <<>>, <<"-", "7">> },
         hiphop \in { <<>>, <<" ">>, <<"@", "h">> },
         discovery \in { <<>>, <<"0">>, <<" ", "-", "8">> } }

AnyGenres == { "Pop", "Rap", "Indie", "Electronic", "Other", "Jazz" }

InitChannels ==
    /\ cfg \in ChannelConfigs
    /\ conn = "ready"
    /\ now = 0
    /\ artists = [a \in {"a1"} |-> ArtistRow(1)]
    /\ subs = [s \in SubIds |-> NoRow]
    /\ tracks = [t \in TrackIds |-> NoRow]
    /\ donations = [d \in DonIds |-> NoRow]
    /\ settings = [u \in Users |-> Null]
    /\ fsm = [u \in Users |-> NoSession]
    /\ procs = [q \in Slots |-> Idle]
    /\ published = {}
    /\ notified = [s \in SubIds |-> [approved |-> 0, rejected |-> 0]]
    /\ thanks = [d \in DonIds |-> NoThanks]
    /\ toggles = [d \in DonIds |-> 0]
    /\ out = Answered("none")
    /\ keyboards = [u \in Users |-> NoKeyboards]

NextChannels ==
    \/ \E g \in AnyGenres : create_submission("a1", g)
    \/ \E p \in Slots, sid \in SubTokens : on_admin_approve(p, AdminId, sid)
    \/ \E p \in Slots, raised \in ApproveStages, anchored, edited, sent \in BOOLEAN :
          approve_finish(p, raised, anchored, edited, sent)

SpecChannels == InitChannels /\ [][NextChannels]_vars

----------------------------------------------------------------------------
(* Claims about the channel of an approval, checked under SpecChannels. *)

(* The setting a genre is published under. *)
SettingOf(genre) ==
    CASE genre = "Pop" -> "channel_pop"
      [] genre = "Rap" -> "channel_hiphop"
      [] genre \in {"Indie", "Electronic", "Other"} -> "channel_discovery"
      [] OTHER -> "channel_discovery"

(* The chats the values of the settings name. *)
ChatOf(text) ==
    CASE text = <<"-", "7">> -> ChatInt(0 - 7)
      [] text = <<" ", "-", "8">> -> ChatInt(0 - 8)
      [] text = <<"@", "h">> -> ChatName(<<"@", "h">>)
      [] OTHER -> ChatInt(0)

(* An approval that has read a PENDING submission of an artist there. *)
Resolving(p, sid) ==
    /\ on_admin_approve(p, AdminId, sid)
    /\ get_submission(sid) # NoRow
    /\ get_submission(sid).status = "PENDING"

(* The approval went on with the chat (a frame in procs), or stopped for   *)
(* want of a channel (no frame).                                           *)
ResolvedTo(p, chat) ==
    IF IsZero(chat)
    THEN out'.answer = "channel not configured" /\ procs' = procs
    ELSE procs'[p].pc = "approve" /\ procs'[p].channel_id = chat

Unset(text) == OnlyBlanks(text) \/ text = <<"0">>

(* C35: an approval resolves the channel of its submission to the value of *)
(* the setting of the genre (Rap: hip-hop; Indie, Electronic, Other and a  *)
(* genre outside the map: discovery), and stops with "not configured"      *)
(* exactly when that setting is empty, blank or the number 0.              *)
C35_ChannelResolved ==
    [][\A p \in Slots, sid \in SubIds :
          Resolving(p, sid)
          => LET text == cfg[SettingOf(subs[sid].genre)] IN
             /\ ResolvedTo(p, ChatOf(text))
             /\ procs' = procs <=> Unset(text)]_vars

(* C35, as stated: the approval stops with "not configured" exactly when   *)
(* the setting of the genre is empty.                                      *)
C35_ZeroOnlyWhenEmpty ==
    [][\A p \in Slots, sid \in SubIds :
          Resolving(p, sid)
          => LET text == cfg[SettingOf(subs[sid].genre)] IN
             /\ ResolvedTo(p, ChatOf(text))
             /\ procs' = procs <=> text = <<>>]_vars

(* C35: a submission of a genre outside the map is still PENDING after an *)
(* approval that found the discovery setting to be 0, while the hip-hop    *)
(* setting names a chat.                                                   *)
C35_Witness ==
    /\ cfg.channel_discovery = <<"0">>
    /\ cfg.channel_hiphop = <<"@", "h">>
    /\ out.answer = "channel not configured"
    /\ published = {}
    /\ \E sid \in SubIds :
          /\ subs[sid] # NoRow
          /\ subs[sid].genre = "Jazz"
          /\ subs[sid].status = "PENDING"

----------------------------------------------------------------------------
(* The timestamps: a store with track 1 published and a CREATED donation   *)
(* for it, in which the moderator reviews a submission while the donor     *)
(* confirms or cancels.                                                    *)

InitStamps ==
    /\ cfg = PopConfig
    /\ conn = "ready"
    /\ now = 0
    /\ artists = [a \in {"a1"} |-> ArtistRow(1)]
    /\ subs = [s \in SubIds |-> NoRow]
    /\ tracks = [t \in TrackIds |-> IF t = 1 THEN PublishedTrack(1) ELSE NoRow]
    /\ donations = [d \in DonIds |->
                        IF d = 1 THEN DonationRow(1, "a1", 2, 5000, 0) ELSE NoRow]
    /\ settings = [u \in Users |-> Null]
    /\ fsm = [u \in Users |-> NoSession]
    /\ procs = [q \in Slots |-> Idle]
    /\ published = {[chat_id |-> get_channel_for_genre(PopConfig, "Pop"),
                     audio |-> 1, caption |-> [title |-> 1, artist_id |-> "a1"],
                     message_id |-> 1]}
    /\ notified = [s \in SubIds |-> [approved |-> 0, rejected |-> 0]]
    /\ thanks = [d \in DonIds |-> NoThanks]
    /\ toggles = [d \in DonIds |-> 0]
    /\ out = Answered("none")
    /\ keyboards = [u \in Users |-> NoKeyboards]

SpecStamps == InitStamps /\ [][NextSettle \/ NextRace]_vars

----------------------------------------------------------------------------
(* Claims about the timestamps, checked under SpecStamps. *)

(* C36: a donation has a confirmed_at exactly when it is CONFIRMED, and a  *)
(* submission a reviewed_at exactly when it is APPROVED or REJECTED,       *)
(* whatever confirms, cancels and reviews were in flight together.         *)
C36_StampsMatchStatus ==
    /\ \A d \in DonIds :
          donations[d] # NoRow =>
             (donations[d].confirmed_at # Null <=> donations[d].status = "CONFIRMED")
    /\ \A sid \in SubIds :
          subs[sid] # NoRow =>
             (subs[sid].reviewed_at # Null
                <=> subs[sid].status \in {"APPROVED", "REJECTED"})

----------------------------------------------------------------------------
(* Claims about a re-toggle and a confirm in flight together, checked      *)
(* under SpecToggle.                                                       *)

(* C37: whatever the interleaving of the re-toggles and the confirms of a  *)
(* donation, once none is in flight a donation that is CONFIRMED with      *)
(* is_anonymous = 1 has no appreciation post and no DM to the artist that  *)
(* arrived with the name or the username of its donor.                     *)
C37_AnonymousStaysHidden ==
    \A d \in DonIds :
       (/\ Quiet
        /\ donations[d] # NoRow
        /\ donations[d].status = "CONFIRMED"
        /\ donations[d].is_anonymous = 1)
       => /\ thanks[d].posted > 0 => ~NamesDonor(thanks[d].post[1], donations[d])
          /\ thanks[d].dmed > 0 => ~NamesDonor(thanks[d].dm[1], donations[d])

----------------------------------------------------------------------------
(* The edits of a donation by another user: every token of this store is   *)
(* issued by user 1, while donation 1 was created by user 2.  The handlers *)
(* that take no user here never read cb.from_user.id.                      *)

Stranger == 1

NextStranger ==
    \/ \E p \in Slots, d \in DonTokens : on_donate_public(p, d)
    \/ \E p \in Slots, d \in DonTokens : on_donate_anonymous(p, d)
    \/ \E p \in Slots : set_anon_finish(p)
    \/ \E p \in Slots, d \in DonTokens : on_toggle_anon(p, Stranger, d)
    \/ \E p \in Slots : toggle_anon_toggle(p)
    \/ \E p \in Slots : toggle_anon_finish(p)
    \/ \E d \in DonTokens : on_add_note(Stranger, d)
    \/ \E text \in NoteTexts : on_note_text(Stranger, text)
    \/ \E p \in Slots, d \in DonTokens : on_cancel_donation(p, d)
    \/ \E p \in Slots : cancel_finish(p)
    \/ \E p \in Slots, d \in DonTokens : on_confirm_donation(p, d)
    \/ \E p \in Slots, posted, dmed \in BOOLEAN : confirm_finish(p, posted, dmed)

SpecStranger == InitDon /\ [][NextStranger]_vars

----------------------------------------------------------------------------
(* Claims about the edits by another user, checked under SpecStranger. *)

(* C38: no token issued by a user who is not the donor of a donation       *)
(* changes its note, its anonymity flag or its status, or writes that      *)
(* user's default anonymity.                                               *)
C38_OnlyDonorEdits ==
    [][/\ \A d \in DonIds :
             (donations[d] # NoRow /\ donations[d].donor_user_id # Stranger)
             => /\ donations'[d].note = donations[d].note
                /\ donations'[d].is_anonymous = donations[d].is_anonymous
                /\ donations'[d].status = donations[d].status
       /\ settings'[Stranger] = settings[Stranger]]_vars

----------------------------------------------------------------------------
(* Claims about the stored Artist rows, checked under SpecProfile. *)

(* C39: every stored Artist has a display_name of at least 2 characters    *)
(* and a payment_link that is null or starts with http:// or https://, and *)
(* the edits of a user change no Artist of another user.                   *)
C39_ArtistsWellFormed ==
    /\ [](\A a \in DOMAIN artists :
             /\ artists[a].display_name # Null
             /\ Len(artists[a].display_name[1]) >= MinNameLen
             /\ artists[a].payment_link # Null => IsLink(artists[a].payment_link[1]))
    /\ [][\A a \in DOMAIN artists :
             artists[a].tg_user_id # Onboarded
             => a \in DOMAIN artists' /\ artists'[a] = artists[a]]_vars

----------------------------------------------------------------------------
(* The shared connection: in the store of the guided flows, user 1 edits    *)
(* the profile while user 2 goes through /submit and onboarding.            *)

NextShared ==
    \/ cmd_profile(Onboarded)
    \/ \E field \in ProfileFields : on_profile_edit(Onboarded, field)
    \/ \E text \in EditTexts : on_profile_edit_text(Onboarded, text)
    \/ cmd_submit(Newcomer)
    \/ \E text \in NameTexts : onboard_name(Newcomer, text)
    \/ \E text \in LinkTexts : onboard_paylink(Newcomer, text)
    \/ \E choice \in GenreChoices : onboard_genre_choice(Newcomer, choice)
    \/ \E text \in BioTexts : onboard_bio(Newcomer, text)
    \/ \E u \in {Onboarded, Newcomer} : cmd_cancel(u)
    \/ \E u \in {Onboarded, Newcomer} : statement_refused(u)

SpecShared == InitFlows /\ [][NextShared]_vars

(* C40: a statement that fails changes no stored data, and after it the     *)
(* operations of every user over the shared connection still succeed: the   *)
(* /cancel of each user, which reads the stored language first, is          *)
(* answered.                                                                *)
C40_FailureIsolated ==
    /\ [][conn' # conn => dbVars' = dbVars]_vars
    /\ [](\A u \in {Onboarded, Newcomer} : ENABLED cmd_cancel(u))

====
